---------------------------- MODULE Spec2Model ----------------------------
(***************************************************************************)
(* Evidence-integrity and secure-storage subsystem of the KVKK consent     *)
(* tool: the file-backed hash chain (HashChainService), the download       *)
(* grants (TokenService and the /file download route) and the submission   *)
(* store with its retention sweep (StorageService).                        *)
(*                                                                         *)
(* Each component has its own specification (SpecChain, SpecToken,         *)
(* SpecTokenSeq, SpecStorage) over the same variables; a specification     *)
(* leaves the variables of the other components at their initial values.   *)
(* Every await of an async function is a step boundary: the code between   *)
(* two awaits runs atomically on the single Node.js thread.                *)
(***************************************************************************)
EXTENDS Integers, Sequences, FiniteSets, TLC

VARIABLES
    \* ---- HashChainService (hashchain.json) ----
    chainExists,    \* the chain file exists on disk
    chainEntries,   \* file.entries of the chain file
    initDone,       \* the promise this._init has resolved
    ap,             \* one record per in-flight append() call slot
    appendCalls,    \* number of append() calls started
    returned,       \* number of append() calls that returned an entry
    verifyOutcome,  \* what the last hashChainService.verify() call produced
    \* ---- StorageService (files under dataPath) ----
    files,          \* per submission id: the three persisted units
    expiryOf,       \* per submission id: the expiresAt computed when it was stored
    nextId,         \* the next unused submission id
    st,             \* the storeSubmission call in flight
    rt,             \* the retrieveSubmission call in flight, or its outcome
    sw,             \* the cleanupExpiredSubmissions run in flight
    sweptExpired,   \* ids that were listed expired when a completed sweep started
    \* ---- TokenService and the download route ----
    activeTokens,   \* this.activeTokens: tokenId -> tracking record
    jwt,            \* the signed tokens handed out: tokenId -> payload
    timers,         \* pending setTimeout(revokeToken) callbacks: <<tokenId, due>>
    dl,             \* one record per in-flight GET /file request slot
    delivered,      \* per tokenId: number of res.send(pdfBuffer) for it
    revoked,        \* tokenIds whose record a revokeToken / revokeSubmissionTokens call named and found
    \* ---- StorageService calls run to completion, one after the other ----
    lastCall,       \* the last deleteSubmission / cleanupExpiredSubmissions call and its result
    \* ---- OTPService ----
    otpStore,       \* this.store: recipient -> challenge entry
    otpLast,        \* the last requestOTP / verifyOTP call and what it returned
    \* ---- EvidenceBundleService ----
    asm,            \* one record per in-flight assembleAndStore() call slot
    metaHash,       \* per submission id: the hash field of its stored metadata
    evidence,       \* per submission id: the bundle in metadata/<id>.evidence
    \* ---- TimestampService ----
    tsa,            \* what the TimestampService constructor read: tsaUrl set or not, and which getTimestamp is loaded
    \* ---- EncryptionService ----
    crypt,          \* the last encrypt() call, the blob as it is now, and what decrypt() made of it
    \* ---- StorageService with file operations that can fail ----
    io,             \* the deleteSubmission / cleanupExpiredSubmissions call in flight, or what it returned
    \* ---- TokenService, seen call by call ----
    \* ---- history ----
    otpVerified,    \* the recipients for which verifyOTP has returned success since the process started
    bf,             \* brute-force middleware: the attempts Map, the requests in flight with the list
                    \* each one filtered on entry, and the failures recorded per client key
    tk,             \* per tokenId the ip it was bound to at issuance, the last call with what it
                    \* returned, and the cleanup scheduler
    \* ---- clock ----
    now             \* Date.now(), in ticks of one minute

chainVars == <<chainExists, chainEntries, initDone, ap, appendCalls, returned, verifyOutcome>>

storageVars == <<files, expiryOf, nextId, st, rt, sw, sweptExpired>>

tokenVars == <<activeTokens, jwt, timers, dl, delivered, revoked>>

callVars == <<lastCall>>

otpVars == <<otpStore, otpLast>>

bundleVars == <<asm, metaHash, evidence>>

stampVars == <<tsa>>

cryptVars == <<crypt>>

ioVars == <<io>>

grantVars == <<tk>>

histVars == <<otpVerified, bf>>

\* the components added to the three above
peerVars == <<callVars, otpVars, bundleVars, stampVars, cryptVars, ioVars, grantVars, histVars>>

vars == <<chainVars, storageVars, tokenVars, peerVars, now>>

-----------------------------------------------------------------------------
(* Bounds *)

NumAppenders == 2
MaxAppends == 3
NumSubs == 2
NumTokens == 2
NumRequests == 2
MaxTime == 3
RetentionTicks == 1
defaultTTLMinutes == 1
defaultMaxAttempts == 3
OtpMaxAttempts == 2
OtpTtlMinutes == 2
timeoutMs == 2

Appenders == 1..NumAppenders

\* submission ids: positive numbers stand for well-formed UUIDs, BadId for a
\* string that is no UUID, UnknownId for a UUID nothing was stored under
SubIds == 1..NumSubs
BadId == 0
UnknownId == NumSubs + 1
NoSub == 0 - 1

TokenIds == 1..NumTokens
Requests == 1..NumRequests
Time == 0..MaxTime

\* e-mail addresses; BadRecipient is the empty string, which !recipient rejects
Recipients == {"a@example.org", "b@example.org"}
BadRecipient == ""

\* six-digit codes _generateCode can draw; NoCode is no code at all
Codes == {"111111", "222222"}
NoCode == ""

\* payloads handed to append(data)
ChainData == {"evidence-a", "evidence-b"}

-----------------------------------------------------------------------------
(* HashChainService *)

\* JavaScript null, and the empty string that prevHash || '' substitutes for it
Null == <<"null">>
EmptyString == <<>>

GenesisData == "genesis"

\* computeHash: SHA-256 over String(index), prevHash || '' and
\* JSON.stringify(data); the digest is modelled as the tuple of what was fed
\* to it (a collision-free hash). The timestamp is not fed to it.
computeHash(index, prevHash, data) ==
    <<"sha256", index, IF prevHash = Null THEN EmptyString ELSE prevHash, data>>

Genesis ==
    [index |-> 0, timestamp |-> 0, prevHash |-> Null, data |-> GenesisData,
     hash |-> computeHash(0, Null, GenesisData)]

\* last = entries[entries.length - 1]; undefined for an empty list, where
\* last?.index and last?.hash are undefined
HasLast(entries) == Len(entries) > 0

LastEntry(entries) == entries[Len(entries)]

NextIndex_NoIncrement(entries) ==
    IF HasLast(entries) THEN LastEntry(entries).index ELSE 0

\* (last?.index || 0) + 1
NextIndex(entries) ==
    (IF HasLast(entries) THEN LastEntry(entries).index ELSE 0) + 1

\* last?.hash || null
PrevHashOf(entries) ==
    IF HasLast(entries) THEN LastEntry(entries).hash ELSE Null

\* the entry append() builds from the list it has read
NewEntry(entries, data, ts) ==
    [index |-> NextIndex(entries), timestamp |-> ts,
     prevHash |-> PrevHashOf(entries), data |-> data,
     hash |-> computeHash(NextIndex(entries), PrevHashOf(entries), data)]

IdleAppend == [pc |-> "idle", data |-> "-", entries |-> <<>>]

\* initialize(): fs.access fails -> write { entries: [genesis] }
Initialize ==
    /\ ~initDone
    /\ initDone' = TRUE
    /\ IF chainExists
       THEN UNCHANGED <<chainExists, chainEntries>>
       ELSE /\ chainExists' = TRUE
            /\ chainEntries' = <<Genesis>>
    /\ UNCHANGED <<ap, appendCalls, returned, verifyOutcome, storageVars, tokenVars, now, peerVars>>

\* append(data) is called; it first awaits this._init
AppendCall(p, d) ==
    /\ ap[p].pc = "idle"
    /\ appendCalls < MaxAppends
    /\ ap' = [ap EXCEPT ![p] = [pc |-> "awaitInit", data |-> d, entries |-> <<>>]]
    /\ appendCalls' = appendCalls + 1
    /\ UNCHANGED <<chainExists, chainEntries, initDone, returned, verifyOutcome, storageVars, tokenVars, now, peerVars>>

\* await storageService.readSecureFile(this.chainFile); entries = file.entries || []
AppendRead(p) ==
    /\ ap[p].pc = "awaitInit"
    /\ initDone
    /\ chainExists
    /\ ap' = [ap EXCEPT ![p].pc = "loaded", ![p].entries = chainEntries]
    /\ UNCHANGED <<chainExists, chainEntries, initDone, appendCalls, returned, verifyOutcome, storageVars, tokenVars, now, peerVars>>

\* entries.push(entry); await writeSecureFile(this.chainFile, { entries }); return entry
AppendWrite(p) ==
    /\ ap[p].pc = "loaded"
    /\ chainEntries' = Append(ap[p].entries, NewEntry(ap[p].entries, ap[p].data, now))
    /\ returned' = returned + 1
    /\ ap' = [ap EXCEPT ![p] = IdleAppend]
    /\ UNCHANGED <<chainExists, initDone, appendCalls, verifyOutcome, storageVars, tokenVars, now, peerVars>>

\* The methods the class HashChainService defines.
HashChainMethods == {"constructor", "initialize", "computeHash", "append", "getLatest"}

\* Calling a method of the exported instance: a name the class does not
\* define is undefined, and calling it throws a TypeError.
CallOutcome(method, result) ==
    IF method \in HashChainMethods THEN result ELSE "TypeError"

\* a caller invokes hashChainService.verify(fromIndex)
VerifyCall ==
    /\ initDone
    /\ verifyOutcome' = CallOutcome("verify", "verdict")
    /\ UNCHANGED <<chainExists, chainEntries, initDone, ap, appendCalls, returned, storageVars, tokenVars, now, peerVars>>

InitChain ==
    /\ chainExists \in BOOLEAN
    /\ chainEntries = IF chainExists THEN <<Genesis>> ELSE <<>>
    /\ initDone = FALSE
    /\ ap = [p \in Appenders |-> IdleAppend]
    /\ appendCalls = 0
    /\ returned = 0
    /\ verifyOutcome = "none"

NextChain ==
    \/ Initialize
    \/ \E p \in Appenders, d \in ChainData : AppendCall(p, d)
    \/ \E p \in Appenders : AppendRead(p)
    \/ \E p \in Appenders : AppendWrite(p)
    \/ VerifyCall

IdleStore == [pc |-> "idle", id |-> NoSub, timestamp |-> 0]

IdleRetrieve == [pc |-> "idle", id |-> NoSub, inner |-> "none", thrown |-> "none",
                 expiredAtCheck |-> FALSE, swept |-> FALSE]

IdleSweep == [pc |-> "idle", toRead |-> {}, expired |-> {}, cur |-> NoSub,
              unit |-> "none", startExpired |-> {}]

\* the storage and token state of a process that has stored and issued nothing
InitStorageIdle ==
    /\ files = [s \in SubIds |-> [form |-> "absent", pdf |-> "absent", meta |-> "absent", expiresAt |-> 0]]
    /\ expiryOf = [s \in SubIds |-> 0]
    /\ nextId = 1
    /\ st = IdleStore
    /\ rt = IdleRetrieve
    /\ sw = IdleSweep
    /\ sweptExpired = {}

InitTokenIdle ==
    /\ activeTokens = [t \in TokenIds |-> [present |-> FALSE, submissionId |-> NoSub, expiresAt |-> 0, downloadCount |-> 0, maxDownloads |-> 0]]
    /\ jwt = [t \in TokenIds |-> [issued |-> FALSE, sub |-> NoSub, exp |-> 0, maxDownloads |-> 0]]
    /\ timers = {}
    /\ dl = [r \in Requests |-> [pc |-> "idle", token |-> 0]]
    /\ delivered = [t \in TokenIds |-> 0]
    /\ revoked = {}

\* no deleteSubmission / cleanupExpiredSubmissions call has been made
NoCall == [op |-> "none", id |-> NoSub, result |-> "none", deleted |-> 0,
           changed |-> FALSE, wasAbsent |-> FALSE, at |-> 0,
           prevOp |-> "none", prevAt |-> 0, prevDeleted |-> 0]

InitCallIdle == lastCall = NoCall

\* new Map(): no challenge stored, no call made
NoOtpCall == [op |-> "none", recipient |-> "", code |-> "", result |-> "none",
              attemptsLeft |-> 0 - 1, verifiedFor |-> "", found |-> FALSE,
              expired |-> FALSE, codeOk |-> FALSE, attempts |-> 0, maxAttempts |-> 0,
              after |-> "none"]

InitOtpIdle ==
    /\ otpStore = {}
    /\ otpLast = NoOtpCall

\* no digest, no timestamp proof, no anchor
NoHash == <<"none">>

NoDigest == ""

NoProof == [type |-> "none", degraded |-> "undefined", answered |-> FALSE]

NoAnchor == [index |-> 0 - 1, hash |-> NoHash, prevHash |-> NoHash]

NoBundle == [submissionId |-> NoSub, pdfHash |-> NoDigest, timestamp |-> NoProof,
             hashChain |-> NoAnchor, otpVerification |-> ""]

IdleAssemble == [pc |-> "idle", pdf |-> "-", submissionId |-> NoSub, pdfHash |-> NoDigest,
                 timestamp |-> NoProof, idle |-> 0, hashChain |-> NoAnchor,
                 otpVerification |-> ""]

\* no assembleAndStore call made
InitAsmIdle ==
    /\ asm = [p \in Appenders |-> IdleAssemble]
    /\ metaHash = [s \in SubIds |-> NoDigest]
    /\ evidence = [s \in SubIds |-> NoBundle]

\* TSA_URL unset
InitTsaIdle == tsa = [url |-> FALSE, impl |-> "rfc3161-openssl"]

InitBundleIdle == InitAsmIdle /\ InitTsaIdle

\* a Buffer that holds a GCM authentication tag: what it authenticates and
\* how many bytes of it there are
NoTag == [mac |-> <<"none">>, len |-> 0]

\* a Buffer that holds AES-CTR output: the plaintext bytes under the key
\* stream of (key, iv)
NoCipherText == [key |-> <<"none">>, iv |-> "", pt |-> ""]

\* a base64 string: the bytes it decodes to, and whether it is the text
\* toString('base64') produces or another text that decodes to the same bytes
Base64(bytes) == [bytes |-> bytes, form |-> "canonical"]

NoBlob == [encrypted |-> Base64(NoCipherText), salt |-> Base64(""), iv |-> Base64(""),
           tag |-> Base64(NoTag), context |-> ""]

NoResult == [status |-> "none", plaintext |-> ""]

IdleCrypt == [pc |-> "idle", plaintext |-> "", context |-> "", sealed |-> NoBlob,
              blob |-> NoBlob, changed |-> "none", how |-> "none", result |-> NoResult]

\* no encrypt() call made
InitCryptIdle == crypt = IdleCrypt

\* no deleteSubmission / cleanupExpiredSubmissions call in flight
IdleIo == [pc |-> "idle", op |-> "none", id |-> NoSub, unit |-> "none", passes |-> 0,
           deletedFiles |-> 0, failed |-> {}, plain |-> {}, wiped |-> {},
           queue |-> {}, deletedCount |-> 0, counted |-> {}, errors |-> {},
           result |-> "none"]

InitIoIdle == io = IdleIo

\* options.ip || null: no ip bound
NoIp == ""

\* no TokenService call made yet
NoGrantCall == [op |-> "none", token |-> 0, kind |-> "none", inner |-> "none",
                thrown |-> "none", submissionId |-> NoSub, changed |-> FALSE,
                removed |-> {}, mismatch |-> FALSE, present |-> FALSE,
                exhausted |-> FALSE, used |-> FALSE, expired |-> FALSE,
                past |-> FALSE, count |-> 0]

\* no setInterval armed, this.cleanupInterval never assigned, process running
IdleScheduler == [armed |-> FALSE, cleanupInterval |-> "undefined", stopped |-> FALSE,
                  ranAfterStop |-> FALSE, exited |-> FALSE]

InitGrantIdle ==
    tk = [ip |-> [t \in TokenIds |-> NoIp], last |-> NoGrantCall, sched |-> IdleScheduler]

\* no verifyOTP call has succeeded
\* the keys the brute-force middleware sees: req.ip of the one client whose
\* requests are followed
ClientKeys == {"10.0.0.1"}

\* a request slot no request occupies
NoBfRequest == [pc |-> "idle", key |-> "", now |-> 0, recentAttempts |-> <<>>, due |-> 0]

\* const attempts = new Map(), no request made
IdleBf == [attempts |-> [key \in ClientKeys |-> <<>>],
           req |-> [r \in Requests |-> NoBfRequest],
           recorded |-> [key \in ClientKeys |-> <<>>],
           succeeded |-> [key \in ClientKeys |-> FALSE]]

InitHistIdle == otpVerified = {} /\ bf = IdleBf

InitPeersIdle ==
    /\ InitCallIdle /\ InitOtpIdle /\ InitBundleIdle /\ InitCryptIdle /\ InitIoIdle
    /\ InitGrantIdle /\ InitHistIdle

InitChainSpec == InitChain /\ InitStorageIdle /\ InitTokenIdle /\ InitPeersIdle /\ now = 0

SpecChain == InitChainSpec /\ [][NextChain]_vars

-----------------------------------------------------------------------------
(* Hash chain: claims *)

\* the chain of C2: genesis first, then index = position, linked and hashed
ChainWellFormed(entries) ==
    /\ Len(entries) >= 1
    /\ entries[1].index = 0
    /\ entries[1].data = GenesisData
    /\ entries[1].prevHash = Null
    /\ \A i \in 2..Len(entries) :
        /\ entries[i].index = i - 1
        /\ entries[i].prevHash = entries[i - 1].hash
        /\ entries[i].hash = computeHash(entries[i].index, entries[i].prevHash, entries[i].data)

NoAppendInFlight == \A p \in Appenders : ap[p].pc = "idle"

\* C1: once N concurrent append() calls have all returned, the persisted
\* chain holds the genesis entry and N new entries (none lost), with
\* contiguous indices and unbroken linkage.
C1_ConcurrentAppendsAllPersisted ==
    (initDone /\ NoAppendInFlight) =>
        /\ Len(chainEntries) = 1 + returned
        /\ ChainWellFormed(chainEntries)

\* C2: whenever the chain file exists, entry 0 is the genesis entry and every
\* later entry i has index i, prevHash = hash of entry i-1 and
\* hash = computeHash(index, prevHash, data).
C2_ChainWellFormed == chainExists => ChainWellFormed(chainEntries)

\* C2 witness: a chain with two appended entries behind the genesis entry,
\* written while another append was in flight.
C2_Witness ==
    /\ chainExists
    /\ Len(chainEntries) = 3
    /\ \E p \in Appenders : ap[p].pc = "loaded"

\* C3: a verify() call yields a verdict, valid exactly when the stored chain
\* is well formed.
C3_VerifyYieldsVerdict ==
    verifyOutcome # "none" =>
        /\ verifyOutcome \in {"valid", "broken"}
        /\ (verifyOutcome = "valid") <=> ChainWellFormed(chainEntries)

-----------------------------------------------------------------------------
(* StorageService: reading a submission *)

\* isValidUUID: the id matches the UUID v4 pattern
isValidUUID(id) == id > BadId

isExpired_Inverted(expiresAt) == now < expiresAt

\* isExpired: new Date() > new Date(expiresAt)
isExpired(expiresAt) == now > expiresAt

\* getSubmissionMetadata returns the parsed .meta file, or null when reading
\* or parsing it fails (absent, or overwritten with random bytes)
MetadataReadable(id) == id \in SubIds /\ files[id].meta = "data"

UnitReadable_Any(id, unit) == id \in SubIds /\ files[id][unit] # "absent"

\* readSecureFile of a unit succeeds only on the JSON that was stored
UnitReadable(id, unit) == id \in SubIds /\ files[id][unit] = "data"

\* retrieveSubmission run without interruption: the error raised inside its
\* try block, or "ok"
RetrieveInner(id) ==
    IF ~isValidUUID(id) THEN "Invalid submission ID format"
    ELSE IF ~MetadataReadable(id) THEN "Submission not found"
    ELSE IF isExpired(files[id].expiresAt) THEN "Submission has expired"
    ELSE IF ~UnitReadable(id, "form") THEN "read failed"
    ELSE IF ~UnitReadable(id, "pdf") THEN "read failed"
    ELSE "ok"

\* all submissions stored at time 0, as storeSubmission leaves them
InitStorageStored ==
    /\ files = [s \in SubIds |-> [form |-> "data", pdf |-> "data", meta |-> "data", expiresAt |-> RetentionTicks]]
    /\ expiryOf = [s \in SubIds |-> RetentionTicks]
    /\ nextId = NumSubs + 1
    /\ st = IdleStore
    /\ rt = IdleRetrieve
    /\ sw = IdleSweep
    /\ sweptExpired = {}

InitChainIdle ==
    /\ chainExists = FALSE
    /\ chainEntries = <<>>
    /\ initDone = FALSE
    /\ ap = [p \in Appenders |-> IdleAppend]
    /\ appendCalls = 0
    /\ returned = 0
    /\ verifyOutcome = "none"

\* The clock advances by one minute. A setTimeout callback that is due runs
\* before the clock moves past its minute.
Tick ==
    /\ now < MaxTime
    /\ \A tm \in timers : tm[2] > now
    /\ now' = now + 1
    /\ UNCHANGED <<chainVars, storageVars, tokenVars, peerVars>>

-----------------------------------------------------------------------------
(* StorageService: store, retrieve, retention sweep *)

\* calculateExpiryDate: createdAt plus the retention period
calculateExpiryDate(createdAt) == createdAt + RetentionTicks

\* storeSubmission, up to its first await: a fresh uuid, the timestamp, and
\* writeSecureFile of submissions/<id>.json
StoreBegin ==
    /\ st.pc = "idle"
    /\ nextId \in SubIds
    /\ st' = [pc |-> "pdf", id |-> nextId, timestamp |-> now]
    /\ nextId' = nextId + 1
    /\ files' = [files EXCEPT ![nextId].form = "data"]
    /\ UNCHANGED <<expiryOf, rt, sw, sweptExpired>>
    /\ UNCHANGED <<chainVars, tokenVars, now, peerVars>>

\* writeSecureFile of pdfs/<id>.pdf.enc
StorePdf ==
    /\ st.pc = "pdf"
    /\ st' = [st EXCEPT !.pc = "meta"]
    /\ files' = [files EXCEPT ![st.id].pdf = "data"]
    /\ UNCHANGED <<expiryOf, nextId, rt, sw, sweptExpired>>
    /\ UNCHANGED <<chainVars, tokenVars, now, peerVars>>

\* writeSecureFile of metadata/<id>.meta, with retention.expiresAt computed
\* from the timestamp taken at the start
StoreMeta ==
    /\ st.pc = "meta"
    /\ st' = IdleStore
    /\ files' = [files EXCEPT ![st.id].meta = "data",
                              ![st.id].expiresAt = calculateExpiryDate(st.timestamp)]
    /\ expiryOf' = [expiryOf EXCEPT ![st.id] = calculateExpiryDate(st.timestamp)]
    /\ UNCHANGED <<nextId, rt, sw, sweptExpired>>
    /\ UNCHANGED <<chainVars, tokenVars, now, peerVars>>

\* the ids a caller may ask for
RetrieveIds == SubIds \cup {BadId, UnknownId}

\* the catch block of retrieveSubmission replaces whatever was raised
RetrieveThrown(inner) == "Failed to retrieve submission"

RetrieveFailed(id, inner) ==
    [pc |-> "done", id |-> id, inner |-> inner, thrown |-> RetrieveThrown(inner),
     expiredAtCheck |-> (id \in SubIds /\ now > expiryOf[id]),
     swept |-> (id \in sweptExpired)]

\* retrieveSubmission(id), up to the read of the form unit: the UUID check,
\* await getSubmissionMetadata, the null check and the expiry check
RetrieveCheck(id) ==
    /\ rt.pc \in {"idle", "done"}
    /\ rt' = IF ~isValidUUID(id) THEN RetrieveFailed(id, "Invalid submission ID format")
             ELSE IF ~MetadataReadable(id) THEN RetrieveFailed(id, "Submission not found")
             ELSE IF isExpired(files[id].expiresAt) THEN RetrieveFailed(id, "Submission has expired")
             ELSE [pc |-> "form", id |-> id, inner |-> "none", thrown |-> "none",
                   expiredAtCheck |-> (now > expiryOf[id]), swept |-> (id \in sweptExpired)]
    /\ UNCHANGED <<files, expiryOf, nextId, st, sw, sweptExpired>>
    /\ UNCHANGED <<chainVars, tokenVars, now, peerVars>>

\* await readSecureFile(formDataPath) and decryptFormData
RetrieveReadForm ==
    /\ rt.pc = "form"
    /\ rt' = IF UnitReadable(rt.id, "form")
             THEN [rt EXCEPT !.pc = "pdf"]
             ELSE [rt EXCEPT !.pc = "done", !.inner = "read failed",
                             !.thrown = RetrieveThrown("read failed")]
    /\ UNCHANGED <<files, expiryOf, nextId, st, sw, sweptExpired>>
    /\ UNCHANGED <<chainVars, tokenVars, now, peerVars>>

\* await readSecureFile(pdfPath), decrypt, and return the submission
RetrieveReadPdf ==
    /\ rt.pc = "pdf"
    /\ rt' = IF UnitReadable(rt.id, "pdf")
             THEN [rt EXCEPT !.pc = "done", !.inner = "ok"]
             ELSE [rt EXCEPT !.pc = "done", !.inner = "read failed",
                             !.thrown = RetrieveThrown("read failed")]
    /\ UNCHANGED <<files, expiryOf, nextId, st, sw, sweptExpired>>
    /\ UNCHANGED <<chainVars, tokenVars, now, peerVars>>

\* cleanupExpiredSubmissions -> listSubmissions: fs.readdir(metadataDir)
SweepStart ==
    /\ sw.pc = "idle"
    /\ sw' = [pc |-> "list",
              toRead |-> {s \in SubIds : files[s].meta # "absent"},
              expired |-> {}, cur |-> NoSub, unit |-> "none",
              startExpired |-> {s \in SubIds : files[s].meta = "data" /\ now > files[s].expiresAt}]
    /\ UNCHANGED <<files, expiryOf, nextId, st, rt, sweptExpired>>
    /\ UNCHANGED <<chainVars, tokenVars, now, peerVars>>

\* listSubmissions: await getSubmissionMetadata of one listed .meta file;
\* expired: this.isExpired(metadata.retention.expiresAt)
SweepRead(s) ==
    /\ sw.pc = "list"
    /\ s \in sw.toRead
    /\ sw' = [sw EXCEPT !.toRead = @ \ {s},
                        !.expired = IF MetadataReadable(s) /\ isExpired(files[s].expiresAt)
                                    THEN @ \cup {s} ELSE @]
    /\ UNCHANGED <<files, expiryOf, nextId, st, rt, sweptExpired>>
    /\ UNCHANGED <<chainVars, tokenVars, now, peerVars>>

\* the units deleteSubmission removes, in this order
NextUnit(unit) ==
    IF unit = "form" THEN "pdf" ELSE IF unit = "pdf" THEN "meta" ELSE "none"

\* the loop over expiredSubmissions reaches the next one: deleteSubmission(id)
SweepPick(s) ==
    /\ sw.pc \in {"list", "delete"}
    /\ sw.toRead = {}
    /\ sw.cur = NoSub
    /\ s \in sw.expired
    /\ sw' = [sw EXCEPT !.pc = "delete", !.expired = @ \ {s}, !.cur = s, !.unit = "form"]
    /\ UNCHANGED <<files, expiryOf, nextId, st, rt, sweptExpired>>
    /\ UNCHANGED <<chainVars, tokenVars, now, peerVars>>

\* after the last unit deleteSubmission returns and the loop goes on
AfterUnit(unit) ==
    IF NextUnit(unit) = "none"
    THEN [sw EXCEPT !.cur = NoSub, !.unit = "none"]
    ELSE [sw EXCEPT !.unit = NextUnit(unit)]

\* secureDeleteFile, first part: fs.stat, then overwritePasses times
\* fs.writeFile(filePath, crypto.randomBytes(fileSize))
SweepOverwrite ==
    /\ sw.pc = "delete"
    /\ sw.cur # NoSub
    /\ files[sw.cur][sw.unit] = "data"
    /\ files' = [files EXCEPT ![sw.cur][sw.unit] = "garbage"]
    /\ UNCHANGED <<sw, expiryOf, nextId, st, rt, sweptExpired>>
    /\ UNCHANGED <<chainVars, tokenVars, now, peerVars>>

\* secureDeleteFile, second part: fs.unlink(filePath). On a unit that does
\* not exist fs.stat and fs.unlink both fail; deleteSubmission logs a
\* warning and goes on to the next unit.
SweepUnlink ==
    /\ sw.pc = "delete"
    /\ sw.cur # NoSub
    /\ files[sw.cur][sw.unit] # "data"
    /\ files' = [files EXCEPT ![sw.cur][sw.unit] = "absent"]
    /\ sw' = AfterUnit(sw.unit)
    /\ UNCHANGED <<expiryOf, nextId, st, rt, sweptExpired>>
    /\ UNCHANGED <<chainVars, tokenVars, now, peerVars>>

\* every expired submission was handed to deleteSubmission: log and return
SweepDone ==
    /\ sw.pc \in {"list", "delete"}
    /\ sw.toRead = {}
    /\ sw.cur = NoSub
    /\ sw.expired = {}
    /\ sw' = IdleSweep
    /\ sweptExpired' = sweptExpired \cup sw.startExpired
    /\ UNCHANGED <<files, expiryOf, nextId, st, rt>>
    /\ UNCHANGED <<chainVars, tokenVars, now, peerVars>>

InitStorageSpec == InitChainIdle /\ InitStorageIdle /\ InitTokenIdle /\ InitPeersIdle /\ now = 0

NextStorage ==
    \/ StoreBegin
    \/ StorePdf
    \/ StoreMeta
    \/ \E id \in RetrieveIds : RetrieveCheck(id)
    \/ RetrieveReadForm
    \/ RetrieveReadPdf
    \/ SweepStart
    \/ \E s \in SubIds : SweepRead(s)
    \/ \E s \in SubIds : SweepPick(s)
    \/ SweepOverwrite
    \/ SweepUnlink
    \/ SweepDone
    \/ Tick

SpecStorage == InitStorageSpec /\ [][NextStorage]_vars

-----------------------------------------------------------------------------
(* TokenService *)

\* setTimeout(..., 60000): one tick
RevokeDelay == 1

\* options.expiresIn as a number of ticks, and options.maxDownloads
TtlOptions == {2}
MaxDownloadOptions == {0, 2}

\* options.maxDownloads || 1
MaxDownloadsOf(opt) == IF opt = 0 THEN 1 ELSE opt

NoRecord == [present |-> FALSE, submissionId |-> NoSub, expiresAt |-> 0, downloadCount |-> 0, maxDownloads |-> 0]

\* Token ids (crypto.randomUUID) and submission ids (uuidv4) are opaque and
\* fresh: they are numbered in the order of their first use.
FreshToken(t) == ~jwt[t].issued /\ \A u \in TokenIds : u < t => jwt[u].issued

InOrderOfFirstUse(s) ==
    \A q \in SubIds : q < s => \E u \in TokenIds : jwt[u].issued /\ jwt[u].sub = q

\* generateDownloadToken: sign a payload with a fresh jti and track it
GenerateDownloadToken(t, s, ttl, maxOpt) ==
    /\ FreshToken(t)
    /\ InOrderOfFirstUse(s)
    /\ jwt' = [jwt EXCEPT ![t] = [issued |-> TRUE, sub |-> s, exp |-> now + ttl,
                                  maxDownloads |-> MaxDownloadsOf(maxOpt)]]
    /\ activeTokens' = [activeTokens EXCEPT ![t] =
            [present |-> TRUE, submissionId |-> s, expiresAt |-> now + ttl,
             downloadCount |-> 0, maxDownloads |-> MaxDownloadsOf(maxOpt)]]
    /\ UNCHANGED <<timers, dl, delivered, revoked>>
    /\ UNCHANGED <<chainVars, storageVars, now, peerVars>>

\* verifyDownloadToken on the signed token with jti t: the error raised
\* inside its try block, or "ok". jwt.verify rejects once now >= exp.
VerifyInner(t) ==
    IF now >= jwt[t].exp THEN "TokenExpiredError"
    ELSE IF ~activeTokens[t].present THEN "Token not found or has been revoked"
    ELSE IF activeTokens[t].downloadCount >= activeTokens[t].maxDownloads
         THEN "Download limit exceeded"
    ELSE "ok"

\* the message verifyDownloadToken's catch block rethrows
VerifyThrown(inner) ==
    IF inner = "TokenExpiredError" THEN "Download link has expired"
    ELSE IF inner = "JsonWebTokenError" THEN "Invalid download token"
    ELSE "Token validation failed"

IncrementCount_Forgotten(tokens, t) == tokens

\* recordDownload: tokenData.downloadCount++
IncrementCount(tokens, t) == [tokens EXCEPT ![t].downloadCount = @ + 1]

\* recordDownload: if the limit is reached, schedule revokeToken in 60 s
ScheduleCleanup(tokens, t) ==
    IF tokens[t].downloadCount >= tokens[t].maxDownloads
    THEN {<<t, now + RevokeDelay>>}
    ELSE {}

DeleteRecord_Kept(tokens, t) == tokens

\* this.activeTokens.delete(tokenId)
DeleteRecord(tokens, t) == [tokens EXCEPT ![t] = NoRecord]

DeleteSubmissionRecords_All(tokens, s) ==
    [t \in TokenIds |-> NoRecord]

\* revokeSubmissionTokens: delete every entry whose submissionId matches
DeleteSubmissionRecords(tokens, s) ==
    [t \in TokenIds |->
        IF tokens[t].present /\ tokens[t].submissionId = s THEN NoRecord ELSE tokens[t]]

\* revokeToken(tokenId), as DELETE /token/:tokenId calls it
RevokeToken(t) ==
    /\ activeTokens' = DeleteRecord(activeTokens, t)
    /\ revoked' = IF activeTokens[t].present THEN revoked \cup {t} ELSE revoked
    /\ UNCHANGED <<jwt, timers, dl, delivered>>
    /\ UNCHANGED <<chainVars, storageVars, now, peerVars>>

\* revokeSubmissionTokens(submissionId)
RevokeSubmissionTokens(s) ==
    /\ activeTokens' = DeleteSubmissionRecords(activeTokens, s)
    /\ revoked' = revoked \cup {t \in TokenIds : activeTokens[t].present /\ activeTokens[t].submissionId = s}
    /\ UNCHANGED <<jwt, timers, dl, delivered>>
    /\ UNCHANGED <<chainVars, storageVars, now, peerVars>>

\* the callback recordDownload scheduled runs: this.revokeToken(tokenId)
TimerFire(tm) ==
    /\ tm \in timers
    /\ now >= tm[2]
    /\ timers' = timers \ {tm}
    /\ activeTokens' = DeleteRecord(activeTokens, tm[1])
    /\ UNCHANGED <<jwt, dl, delivered, revoked>>
    /\ UNCHANGED <<chainVars, storageVars, now, peerVars>>

\* cleanupExpiredTokens: delete every record with now > expiresAt
CleanupExpiredTokens ==
    /\ \E t \in TokenIds : activeTokens[t].present /\ now > activeTokens[t].expiresAt
    /\ activeTokens' = [t \in TokenIds |->
            IF activeTokens[t].present /\ now > activeTokens[t].expiresAt
            THEN NoRecord ELSE activeTokens[t]]
    /\ UNCHANGED <<jwt, timers, dl, delivered, revoked>>
    /\ UNCHANGED <<chainVars, storageVars, now, peerVars>>

\* GET /file, first part: the tokenValidation middleware calls
\* verifyDownloadToken; on success the handler starts
\* await storageService.retrieveSubmission(submissionId)
DownloadValidate(r, t) ==
    /\ dl[r].pc = "idle"
    /\ jwt[t].issued
    /\ IF VerifyInner(t) = "ok"
       THEN dl' = [dl EXCEPT ![r] = [pc |-> "retrieving", token |-> t]]
       ELSE UNCHANGED dl
    /\ UNCHANGED <<activeTokens, jwt, timers, delivered, revoked>>
    /\ UNCHANGED <<chainVars, storageVars, now, peerVars>>

\* GET /file, second part: retrieveSubmission has settled; then
\* recordDownload(tokenId) and res.send(submission.pdfBuffer). A throw of
\* either call ends the request with status 500 and sends nothing.
DownloadFinish(r) ==
    /\ dl[r].pc = "retrieving"
    /\ dl' = [dl EXCEPT ![r] = [pc |-> "idle", token |-> 0]]
    /\ LET t == dl[r].token
           counted == IncrementCount(activeTokens, t)
       IN IF RetrieveInner(jwt[t].sub) = "ok" /\ activeTokens[t].present
          THEN /\ activeTokens' = counted
               /\ timers' = timers \cup ScheduleCleanup(counted, t)
               /\ delivered' = [delivered EXCEPT ![t] = @ + 1]
          ELSE UNCHANGED <<activeTokens, timers, delivered>>
    /\ UNCHANGED <<jwt, revoked>>
    /\ UNCHANGED <<chainVars, storageVars, now, peerVars>>

InitTokenSpec == InitChainIdle /\ InitStorageStored /\ InitTokenIdle /\ InitPeersIdle /\ now = 0

\* the grant the concurrent requests present
RaceToken == CHOOSE t \in TokenIds : \A u \in TokenIds : t <= u

NextToken ==
    \/ \E s \in SubIds, ttl \in TtlOptions, m \in MaxDownloadOptions :
        GenerateDownloadToken(RaceToken, s, ttl, m)
    \/ \E r \in Requests : DownloadValidate(r, RaceToken)
    \/ \E r \in Requests : DownloadFinish(r)
    \/ \E tm \in timers : TimerFire(tm)
    \/ CleanupExpiredTokens
    \/ Tick

\* concurrent GET /file requests against the token service
SpecToken == InitTokenSpec /\ [][NextToken]_vars

\* One redemption run to completion with no other request in between:
\* verifyDownloadToken, then recordDownload when validation passed.
Redeem(t) ==
    /\ jwt[t].issued
    /\ LET counted == IncrementCount(activeTokens, t)
       IN IF VerifyInner(t) = "ok"
          THEN /\ activeTokens' = counted
               /\ timers' = timers \cup ScheduleCleanup(counted, t)
               /\ delivered' = [delivered EXCEPT ![t] = @ + 1]
          ELSE UNCHANGED <<activeTokens, timers, delivered>>
    /\ UNCHANGED <<jwt, dl, revoked>>
    /\ UNCHANGED <<chainVars, storageVars, now, peerVars>>

\* the clock runs until a grant issued at the start has expired and the
\* sweep has had a tick to remove it
TokenHorizon == RevokeDelay + CHOOSE ttl \in TtlOptions : \A u \in TtlOptions : u <= ttl

TokenTick == now < TokenHorizon /\ Tick

NextTokenSeq ==
    \/ \E t \in TokenIds, s \in SubIds, ttl \in TtlOptions, m \in MaxDownloadOptions :
        GenerateDownloadToken(t, s, ttl, m)
    \/ \E t \in TokenIds : Redeem(t)
    \/ \E t \in TokenIds : RevokeToken(t)
    \/ \E s \in SubIds : RevokeSubmissionTokens(s)
    \/ \E tm \in timers : TimerFire(tm)
    \/ CleanupExpiredTokens
    \/ TokenTick

\* redemptions one after the other, with revocation
SpecTokenSeq == InitTokenSpec /\ [][NextTokenSeq]_vars

-----------------------------------------------------------------------------
(* Download grants: claims *)

\* C4: the use count of a grant never exceeds its maxUses, and no more than
\* maxUses downloads deliver the artifact for it, whatever the interleaving
\* of requests presenting the same signed token.
C4_UseCountWithinMax ==
    \A t \in TokenIds :
        /\ activeTokens[t].present => activeTokens[t].downloadCount <= activeTokens[t].maxDownloads
        /\ jwt[t].issued => delivered[t] <= jwt[t].maxDownloads

\* C5: in a sequential run, while a grant is unexpired and unrevoked, a
\* redemption succeeds exactly when fewer than maxUses redemptions of it have
\* succeeded before: the first n succeed and every later one fails.
C5_FirstNRedemptionsSucceed ==
    \A t \in TokenIds :
        (jwt[t].issued /\ now < jwt[t].exp /\ t \notin revoked) =>
            /\ delivered[t] <= jwt[t].maxDownloads
            /\ (VerifyInner(t) = "ok") <=> (delivered[t] < jwt[t].maxDownloads)

\* C5 witness: a grant with maxUses = 2, unexpired and unrevoked, was
\* redeemed twice and its next redemption is refused.
C5_Witness ==
    \E t \in TokenIds :
        /\ jwt[t].issued /\ now < jwt[t].exp /\ t \notin revoked
        /\ jwt[t].maxDownloads = 2
        /\ delivered[t] = 2
        /\ VerifyInner(t) # "ok"

\* C6: a revocation removes the record at once and for good, no redemption
\* of a revoked token succeeds afterwards, and a revocation step removes the
\* records it names (the one token, or every token of the submission) and
\* leaves every other record as it was.
C6_RevokedTokensUnusable ==
    /\ [](\A t \in revoked : ~activeTokens[t].present /\ VerifyInner(t) # "ok")
    /\ [][\A t \in revoked : delivered'[t] = delivered[t]]_vars
    /\ [][revoked' # revoked =>
            \A t \in TokenIds :
                IF t \in revoked' \ revoked
                THEN ~activeTokens'[t].present
                ELSE activeTokens'[t] = activeTokens[t]]_vars

\* C6 witness: a revoked token that is unexpired and had uses left, while the
\* record of a token for another submission is still there.
C6_Witness ==
    \E t \in revoked, u \in TokenIds :
        /\ now < jwt[t].exp
        /\ delivered[t] < jwt[t].maxDownloads
        /\ activeTokens[u].present
        /\ jwt[u].sub # jwt[t].sub

-----------------------------------------------------------------------------
(* Submission store: claims *)

AllUnits(s, state) ==
    files[s].form = state /\ files[s].pdf = state /\ files[s].meta = state

\* C7: a retrieval whose expiry check runs after the submission's expiresAt
\* goes no further and returns nothing, whether or not the units are still
\* on disk.
C7_ExpiredNeverReturned ==
    (rt.pc \in {"form", "pdf"} \/ rt.inner = "ok") => ~rt.expiredAtCheck

\* C7 witness: a retrieval of an expired submission failed while its three
\* units were all still stored.
C7_Witness ==
    /\ rt.pc = "done"
    /\ rt.inner = "Submission has expired"
    /\ rt.expiredAtCheck
    /\ AllUnits(rt.id, "data")

\* C8: the error a failed retrieval hands to its caller names the reason:
\* not found for an absent submission, expired for an expired one.
C8_FailureReasonReachesCaller ==
    (rt.pc = "done" /\ rt.inner \in {"Submission not found", "Submission has expired"}) =>
        rt.thrown = rt.inner

\* C9: once a sweep has completed, the metadata unit of every submission that
\* was expired when it started is gone, and a retrieval of such a submission
\* fails with the not-found error.
C9_SweptRetrieveNotFound ==
    /\ \A s \in sweptExpired : files[s].meta = "absent"
    /\ (rt.pc = "done" /\ rt.swept) => rt.thrown = "Submission not found"

-----------------------------------------------------------------------------
(* StorageService: calls run to completion, one after the other *)

Units == {"form", "pdf", "meta"}

\* the components the store calls leave alone
exceptCallVars == <<chainVars, tokenVars, otpVars, bundleVars, stampVars, cryptVars, ioVars, grantVars, histVars>>

\* deleteSubmission: deletedFiles counts the units secureDeleteFile removed;
\* a unit that does not exist makes fs.unlink fail, which is caught and logged
DeletedFiles(f, id) ==
    IF id \in SubIds THEN Cardinality({u \in Units : f[id][u] # "absent"}) ELSE 0

\* the files deleteSubmission(id) leaves behind
DeleteSubmissionFiles(f, id) ==
    IF id \in SubIds
    THEN [f EXCEPT ![id].form = "absent", ![id].pdf = "absent", ![id].meta = "absent"]
    ELSE f

DeleteOutcome_ThrowOnMissing(f, id) ==
    IF ~isValidUUID(id) \/ DeletedFiles(f, id) < Cardinality(Units)
    THEN "Failed to delete submission"
    ELSE "success"

\* deleteSubmission(id): it throws for an id that is no UUID and returns
\* {success: true, deletedFiles} otherwise
DeleteOutcome(f, id) ==
    IF ~isValidUUID(id) THEN "Failed to delete submission" ELSE "success"

\* listSubmissions().filter(s => s.expired): the ids whose .meta file parses
\* and shows an expiresAt in the past
ListExpired(f) ==
    {s \in SubIds : f[s].meta = "data" /\ isExpired(f[s].expiresAt)}

\* the files cleanupExpiredSubmissions leaves behind
CleanupFiles(f) ==
    [s \in SubIds |-> IF s \in ListExpired(f) THEN DeleteSubmissionFiles(f, s)[s] ELSE f[s]]

\* cleanupExpiredSubmissions: deletedCount counts the deleteSubmission calls
\* that returned
CleanupDeletedCount(f) ==
    Cardinality({s \in ListExpired(f) : DeleteOutcome(f, s) = "success"})

\* the record of a finished call, with the call before it
CallRecord(op, id, result, deleted, changed, wasAbsent) ==
    [op |-> op, id |-> id, result |-> result, deleted |-> deleted,
     changed |-> changed, wasAbsent |-> wasAbsent, at |-> now,
     prevOp |-> lastCall.op, prevAt |-> lastCall.at, prevDeleted |-> lastCall.deleted]

\* storeSubmission, all three units written
StoreSubmissionCall ==
    /\ nextId \in SubIds
    /\ files' = [files EXCEPT ![nextId] =
            [form |-> "data", pdf |-> "data", meta |-> "data",
             expiresAt |-> calculateExpiryDate(now)]]
    /\ expiryOf' = [expiryOf EXCEPT ![nextId] = calculateExpiryDate(now)]
    /\ nextId' = nextId + 1
    /\ lastCall' = CallRecord("store", nextId, "success", 0, TRUE, FALSE)
    /\ UNCHANGED <<st, rt, sw, sweptExpired>>
    /\ UNCHANGED <<exceptCallVars, now>>

\* deleteSubmission(id)
DeleteSubmissionCall(id) ==
    /\ files' = IF isValidUUID(id) THEN DeleteSubmissionFiles(files, id) ELSE files
    /\ lastCall' = CallRecord("delete", id, DeleteOutcome(files, id),
                              IF isValidUUID(id) THEN DeletedFiles(files, id) ELSE 0,
                              isValidUUID(id) /\ DeleteSubmissionFiles(files, id) # files,
                              isValidUUID(id) /\ DeletedFiles(files, id) = 0)
    /\ UNCHANGED <<expiryOf, nextId, st, rt, sw, sweptExpired>>
    /\ UNCHANGED <<exceptCallVars, now>>

\* cleanupExpiredSubmissions()
CleanupCall ==
    /\ files' = CleanupFiles(files)
    /\ lastCall' = CallRecord("cleanup", NoSub, "success", CleanupDeletedCount(files),
                              CleanupFiles(files) # files, FALSE)
    /\ UNCHANGED <<expiryOf, nextId, st, rt, sw, sweptExpired>>
    /\ UNCHANGED <<exceptCallVars, now>>

InitStorageCalls == InitChainIdle /\ InitStorageIdle /\ InitTokenIdle /\ InitPeersIdle /\ now = 0

NextStorageCalls ==
    \/ StoreSubmissionCall
    \/ \E id \in RetrieveIds : DeleteSubmissionCall(id)
    \/ CleanupCall
    \/ Tick

SpecStorageCalls == InitStorageCalls /\ [][NextStorageCalls]_vars

-----------------------------------------------------------------------------
(* OTPService *)

\* defaultTTLMinutes and defaultMaxAttempts are what the constructor reads
\* from OTP_TTL_MINUTES and OTP_MAX_ATTEMPTS (10 and 5 when they are unset);
\* OtpTtlMinutes and OtpMaxAttempts are the values a context overrides them
\* with. The context handed to requestOTP is none, as the /request route
\* calls it, or {ttlMinutes: OtpTtlMinutes, maxAttempts: OtpMaxAttempts}.
OtpContexts == {"none", "custom"}

exceptOtpVars == <<chainVars, storageVars, tokenVars, callVars, bundleVars, stampVars, cryptVars, ioVars, grantVars, histVars>>

\* _hashCode: SHA-256 of the code, in hex
HashCode(code) == <<"sha256", code>>

\* what this.store.get returns when the key is missing
NoEntry == [recipient |-> BadRecipient, codeHash |-> HashCode(NoCode), attempts |-> 0,
            maxAttempts |-> 0, expiresAt |-> 0]

MapHas(store, r) == \E e \in store : e.recipient = r

\* this.store.get(recipient)
MapGet(store, r) ==
    IF MapHas(store, r) THEN CHOOSE e \in store : e.recipient = r ELSE NoEntry

MapSet_NoReplace(store, r, entry) == store \cup {entry}

\* this.store.set(recipient, entry)
MapSet(store, r, entry) == {e \in store : e.recipient # r} \cup {entry}

MapDelete_Kept(store, r) == store

\* this.store.delete(recipient)
MapDelete(store, r) == {e \in store : e.recipient # r}

\* the entry requestOTP builds: context.ttlMinutes || this.defaultTTLMinutes,
\* context.maxAttempts || this.defaultMaxAttempts
NewOtpEntry(r, code, ctx) ==
    [recipient |-> r,
     codeHash |-> HashCode(code),
     attempts |-> 0,
     maxAttempts |-> IF ctx = "custom" THEN OtpMaxAttempts ELSE defaultMaxAttempts,
     expiresAt |-> now + (IF ctx = "custom" THEN OtpTtlMinutes ELSE defaultTTLMinutes)]

OtpExpired_Never(entry) == FALSE

\* now > new Date(entry.expiresAt)
OtpExpired(entry) == now > entry.expiresAt

AttemptsExceeded_OffByOne(entry) == entry.attempts > entry.maxAttempts

\* entry.attempts >= entry.maxAttempts
AttemptsExceeded(entry) == entry.attempts >= entry.maxAttempts

CountAttempt_Forgotten(entry) == entry

\* entry.attempts += 1
CountAttempt(entry) == [entry EXCEPT !.attempts = @ + 1]

\* verifyOTP(recipient, code): the reason it returns, "success" for
\* {success: true, verification}
VerifyReason(entry, code) ==
    IF entry = NoEntry THEN "NOT_FOUND"
    ELSE IF OtpExpired(entry) THEN "EXPIRED"
    ELSE IF AttemptsExceeded(entry) THEN "ATTEMPTS_EXCEEDED"
    ELSE IF HashCode(code) # entry.codeHash THEN "INVALID"
    ELSE "success"

\* the store verifyOTP leaves behind: untouched when nothing is found, the
\* entry with attempts + 1 after a wrong code, the entry deleted otherwise
VerifyStore(store, r, code) ==
    LET entry == MapGet(store, r)
        reason == VerifyReason(entry, code)
    IN  IF reason = "NOT_FOUND" THEN store
        ELSE IF reason = "INVALID" THEN MapSet(store, r, CountAttempt(entry))
        ELSE MapDelete(store, r)

\* Math.max(0, entry.maxAttempts - entry.attempts), after the increment
AttemptsLeft(entry) ==
    IF entry.maxAttempts - (entry.attempts + 1) > 0
    THEN entry.maxAttempts - (entry.attempts + 1)
    ELSE 0

\* The record of a finished call: what it returned, what it found in the
\* store (found, expired, codeOk, attempts, maxAttempts), and how the call
\* before it ended if that was a verifyOTP for the same recipient (after).
OtpCallRecord(op, r, code, result, entry) ==
    [op |-> op, recipient |-> r, code |-> code, result |-> result,
     attemptsLeft |-> IF result = "INVALID" THEN AttemptsLeft(entry) ELSE 0 - 1,
     verifiedFor |-> IF op = "verify" /\ result = "success" THEN r ELSE BadRecipient,
     found |-> entry # NoEntry,
     expired |-> entry # NoEntry /\ now > entry.expiresAt,
     codeOk |-> entry # NoEntry /\ HashCode(code) = entry.codeHash,
     attempts |-> entry.attempts, maxAttempts |-> entry.maxAttempts,
     after |-> IF op = "verify" /\ otpLast.op = "verify" /\ otpLast.recipient = r
               THEN otpLast.result ELSE "none"]

\* requestOTP(recipient, context): the entry is stored before the e-mail is
\* sent; a failed send throws and leaves the new entry in the store
RequestOTP(r, code, ctx, sent) ==
    /\ otpStore' = IF r = BadRecipient THEN otpStore
                   ELSE MapSet(otpStore, r, NewOtpEntry(r, code, ctx))
    /\ otpLast' = OtpCallRecord("request", r, code,
                                IF r = BadRecipient THEN "Recipient is required"
                                ELSE IF sent THEN "success" ELSE "Failed to send OTP email",
                                MapGet(otpStore, r))
    /\ UNCHANGED <<exceptOtpVars, now>>

\* verifyOTP(recipient, code)
VerifyOTP(r, code) ==
    /\ otpStore' = VerifyStore(otpStore, r, code)
    /\ otpLast' = OtpCallRecord("verify", r, code,
                                VerifyReason(MapGet(otpStore, r), code), MapGet(otpStore, r))
    /\ UNCHANGED <<exceptOtpVars, now>>

InitOtp == InitChainIdle /\ InitStorageIdle /\ InitTokenIdle /\ InitPeersIdle /\ now = 0

\* the clock runs until a challenge with the default lifetime has expired
OtpHorizon == defaultTTLMinutes + 1

OtpTick == now < OtpHorizon /\ Tick

NextOtp ==
    \/ \E r \in Recipients, code \in Codes, ctx \in OtpContexts, sent \in BOOLEAN :
            RequestOTP(r, code, ctx, sent)
    \/ \E code \in Codes : RequestOTP(BadRecipient, code, "none", TRUE)
    \/ \E r \in Recipients, code \in Codes : VerifyOTP(r, code)
    \/ OtpTick

SpecOtp == InitOtp /\ [][NextOtp]_vars

-----------------------------------------------------------------------------
(* OTP challenges: claims *)

\* the last call was verifyOTP and found a challenge that had not expired
VerifiedLive == otpLast.op = "verify" /\ otpLast.found /\ ~otpLast.expired

\* C12, as the code has it: the wrong code that uses up the last attempt
\* leaves the challenge stored with attempts = maxAttempts; the next verify
\* on the unexpired challenge, whatever its code, answers ATTEMPTS_EXCEEDED
\* and removes the challenge; the verify after that answers NOT_FOUND; and no
\* verify succeeds on a challenge whose attempts have reached maxAttempts.
C12_ExhaustedNeverVerifies ==
    /\ (otpLast.op = "verify" /\ otpLast.result = "INVALID" /\ otpLast.attemptsLeft = 0) =>
            MapGet(otpStore, otpLast.recipient).attempts = otpLast.maxAttempts
    /\ (VerifiedLive /\ otpLast.attempts >= otpLast.maxAttempts) =>
            (otpLast.result = "ATTEMPTS_EXCEEDED" /\ ~MapHas(otpStore, otpLast.recipient))
    /\ (otpLast.op = "verify" /\ otpLast.after = "ATTEMPTS_EXCEEDED") =>
            otpLast.result = "NOT_FOUND"
    /\ (otpLast.op = "verify" /\ otpLast.result = "success") =>
            (otpLast.found /\ otpLast.attempts < otpLast.maxAttempts)

\* C12 witness: the correct code was presented to an unexpired challenge
\* whose attempts were used up, and was refused.
C12_Witness ==
    /\ VerifiedLive
    /\ otpLast.attempts >= otpLast.maxAttempts
    /\ otpLast.codeOk
    /\ otpLast.result = "ATTEMPTS_EXCEEDED"

\* C12 as stated: every verify made once the attempts are used up, the one
\* that follows the ATTEMPTS_EXCEEDED answer included, answers
\* ATTEMPTS_EXCEEDED.
C12_EveryLaterVerifyExceeded ==
    (otpLast.op = "verify" /\
        ((VerifiedLive /\ otpLast.attempts >= otpLast.maxAttempts)
            \/ otpLast.after = "ATTEMPTS_EXCEEDED")) =>
        otpLast.result = "ATTEMPTS_EXCEEDED"

\* C13: the correct code presented to a stored, unexpired challenge with
\* attempts left succeeds, yields a verification for that recipient and
\* removes the challenge; a verify that finds no challenge, such as the one
\* that follows a success, answers NOT_FOUND.
C13_CorrectCodeVerifiesOnce ==
    /\ (VerifiedLive /\ otpLast.attempts < otpLast.maxAttempts /\ otpLast.codeOk) =>
            /\ otpLast.result = "success"
            /\ otpLast.verifiedFor = otpLast.recipient
            /\ ~MapHas(otpStore, otpLast.recipient)
    /\ (otpLast.op = "verify" /\ ~otpLast.found) => otpLast.result = "NOT_FOUND"
    /\ (otpLast.op = "verify" /\ otpLast.after = "success") =>
            (~otpLast.found /\ otpLast.result = "NOT_FOUND")

\* C13 witness: the correct code succeeded as the second attempt, after one
\* wrong code.
C13_Witness ==
    /\ otpLast.op = "verify"
    /\ otpLast.result = "success"
    /\ otpLast.attempts = 1
    /\ otpLast.verifiedFor = otpLast.recipient

\* C14: a verify that finds a challenge past its expiresAt answers EXPIRED
\* and removes the challenge, whatever the code and the attempt count.
C14_ExpiredTakesPrecedence ==
    (otpLast.op = "verify" /\ otpLast.found /\ otpLast.expired) =>
        (otpLast.result = "EXPIRED" /\ ~MapHas(otpStore, otpLast.recipient))

\* C14 witness: the correct code was presented after expiry to a challenge
\* whose attempts were also used up, and the answer was EXPIRED.
C14_Witness ==
    /\ otpLast.op = "verify" /\ otpLast.found /\ otpLast.expired
    /\ otpLast.codeOk
    /\ otpLast.attempts >= otpLast.maxAttempts
    /\ otpLast.result = "EXPIRED"

\* C15: the store never holds two challenges for one recipient, and after
\* requestOTP the recipient's challenge is the new one: attempts 0, the new
\* code, and no code other than the new one verifies.
C15_OneChallengePerRecipient ==
    /\ \A r \in Recipients : Cardinality({e \in otpStore : e.recipient = r}) <= 1
    /\ (otpLast.op = "request" /\ otpLast.recipient \in Recipients) =>
            /\ MapHas(otpStore, otpLast.recipient)
            /\ MapGet(otpStore, otpLast.recipient).codeHash = HashCode(otpLast.code)
            /\ MapGet(otpStore, otpLast.recipient).attempts = 0
            /\ \A c \in Codes \ {otpLast.code} :
                    VerifyReason(MapGet(otpStore, otpLast.recipient), c) # "success"

\* C15 witness: a request replaced an unexpired challenge that had a
\* different code and attempts already counted, while the other recipient's
\* challenge is still stored.
C15_Witness ==
    /\ otpLast.op = "request" /\ otpLast.recipient \in Recipients
    /\ otpLast.found /\ ~otpLast.expired /\ ~otpLast.codeOk
    /\ otpLast.attempts > 0
    /\ \E r \in Recipients \ {otpLast.recipient} : MapHas(otpStore, r)

\* C16: a wrong code presented to a stored, unexpired challenge with
\* attempts left answers INVALID with maxAttempts - (attempts + 1) attempts
\* left, leaves the challenge stored with attempts + 1, and attempts never
\* exceeds maxAttempts.
C16_WrongCodeCountsOneAttempt ==
    /\ (VerifiedLive /\ otpLast.attempts < otpLast.maxAttempts /\ ~otpLast.codeOk) =>
            /\ otpLast.result = "INVALID"
            /\ otpLast.attemptsLeft = otpLast.maxAttempts - (otpLast.attempts + 1)
            /\ MapHas(otpStore, otpLast.recipient)
            /\ MapGet(otpStore, otpLast.recipient).attempts = otpLast.attempts + 1
            /\ MapGet(otpStore, otpLast.recipient).maxAttempts = otpLast.maxAttempts
    /\ \A e \in otpStore : e.attempts <= e.maxAttempts

\* C16 witness: a second wrong code, with one attempt left after it.
C16_Witness ==
    /\ otpLast.op = "verify" /\ otpLast.result = "INVALID"
    /\ otpLast.attempts = 1
    /\ otpLast.attemptsLeft = 1
    /\ MapGet(otpStore, otpLast.recipient).attempts = 2

-----------------------------------------------------------------------------
(* EvidenceBundleService.assembleAndStore and TimestampService.getTimestamp *)

\* the rendered documents a submission can carry
Pdfs == {"pdf-a", "pdf-b"}

\* the two TimestampService classes in the tree: the one that simulates the
\* token locally and the one that asks the authority over HTTP
TsaImpls == {"placeholder", "rfc3161-openssl"}

\* the components an assembleAndStore call leaves alone
exceptBundleVars == <<tokenVars, callVars, otpVars, stampVars, cryptVars, ioVars, grantVars, histVars, now>>

\* StorageService.calculateHash: SHA-256 of the buffer, in hex
calculateHash(buffer) == "sha256:" \o buffer

\* EvidenceBundleService.computePdfHash: SHA-256 of the buffer, in hex
computePdfHash(buffer) == "sha256:" \o buffer

\* the payload assembleAndStore hands to hashChainService.append, as the
\* JSON text computeHash feeds to the digest: type, submissionId, pdfHash
AnchorData(id, pdfHash) ==
    "consent-evidence," \o ToString(id) \o "," \o pdfHash

\* the local fallback getTimestamp returns: {type: 'local', createdAt, nonce}
LocalProof == [type |-> "local", degraded |-> "undefined", answered |-> FALSE]

\* the proof getTimestamp returns with type 'tsa'; answered records whether
\* the token is the authority's response
TsaProof(answered) == [type |-> "tsa", degraded |-> "undefined", answered |-> answered]

\* bundle.hashChain = {index, hash, prevHash} of the entry append returned
AnchorOf(entry) == [index |-> entry.index, hash |-> entry.hash, prevHash |-> entry.prevHash]

\* the bundle written to metadata/<id>.evidence
BundleOf(a) ==
    [submissionId |-> a.submissionId, pdfHash |-> a.pdfHash,
     timestamp |-> a.timestamp, hashChain |-> a.hashChain,
     otpVerification |-> a.otpVerification]

\* await storageService.storeSubmission(formData, pdfBuffer, emailData) has
\* stored the three units; the metadata carries hash = calculateHash(pdfBuffer)
AssembleStore(p, buffer) ==
    /\ asm[p].pc = "idle"
    /\ nextId \in SubIds
    /\ files' = [files EXCEPT ![nextId] =
            [form |-> "data", pdf |-> "data", meta |-> "data",
             expiresAt |-> calculateExpiryDate(now)]]
    /\ expiryOf' = [expiryOf EXCEPT ![nextId] = calculateExpiryDate(now)]
    /\ nextId' = nextId + 1
    /\ metaHash' = [metaHash EXCEPT ![nextId] = calculateHash(buffer)]
    /\ asm' = [asm EXCEPT ![p] = [IdleAssemble EXCEPT !.pc = "stored", !.pdf = buffer,
                                                      !.submissionId = nextId]]
    /\ UNCHANGED <<st, rt, sw, sweptExpired, evidence, chainVars, exceptBundleVars>>

\* pdfHash = computePdfHash(pdfBuffer); getTimestamp({pdfHash}) runs up to its
\* first await: no tsaUrl -> the local fallback; the placeholder class ->
\* a 'tsa' proof with a token it computed itself; otherwise openssl is spawned
GetTimestampCall(p) ==
    /\ asm[p].pc = "stored"
    /\ asm' = [asm EXCEPT
            ![p].pdfHash = computePdfHash(asm[p].pdf),
            ![p].pc = IF tsa.url /\ tsa.impl = "rfc3161-openssl" THEN "tsq" ELSE "stamped",
            ![p].timestamp = IF ~tsa.url THEN LocalProof
                             ELSE IF tsa.impl = "placeholder" THEN TsaProof(FALSE)
                             ELSE NoProof]
    /\ UNCHANGED <<metaHash, evidence, chainVars, storageVars, exceptBundleVars>>

\* createTsqOpenSSL: the execFile callback runs when the child has exited by
\* itself or was killed after timeoutMs; err -> reject -> local fallback
TsqDone(p, ok) ==
    /\ asm[p].pc = "tsq"
    /\ asm' = [asm EXCEPT
            ![p].pc = IF ok THEN "posting" ELSE "stamped",
            ![p].idle = 0,
            ![p].timestamp = IF ok THEN NoProof ELSE LocalProof]
    /\ UNCHANGED <<metaHash, evidence, chainVars, storageVars, exceptBundleVars>>

\* postToTSA: one unit of time passes with no activity on the socket
IdleTick(p) ==
    /\ asm[p].pc = "posting"
    /\ asm[p].idle < timeoutMs
    /\ asm' = [asm EXCEPT ![p].idle = asm[p].idle + 1]
    /\ UNCHANGED <<metaHash, evidence, chainVars, storageVars, exceptBundleVars>>

\* postToTSA: bytes travel on the socket (res.on('data') pushes a chunk);
\* the socket's timeout is an inactivity timeout and starts again
TsaChunk(p) ==
    /\ asm[p].pc = "posting"
    /\ asm[p].idle > 0
    /\ asm' = [asm EXCEPT ![p].idle = 0]
    /\ UNCHANGED <<metaHash, evidence, chainVars, storageVars, exceptBundleVars>>

\* postToTSA: res.on('end'): a 2xx status resolves with the body, which
\* getTimestamp returns as the token; any other status rejects
TsaRespond(p, ok) ==
    /\ asm[p].pc = "posting"
    /\ asm' = [asm EXCEPT
            ![p].pc = "stamped",
            ![p].timestamp = IF ok THEN TsaProof(TRUE) ELSE LocalProof]
    /\ UNCHANGED <<metaHash, evidence, chainVars, storageVars, exceptBundleVars>>

\* postToTSA: req.on('error') rejects; getTimestamp catches and falls back
TsaError(p) ==
    /\ asm[p].pc = "posting"
    /\ asm' = [asm EXCEPT ![p].pc = "stamped", ![p].timestamp = LocalProof]
    /\ UNCHANGED <<metaHash, evidence, chainVars, storageVars, exceptBundleVars>>

\* postToTSA: req.on('timeout') after timeoutMs of inactivity:
\* req.destroy(new Error('TSA request timed out')) -> 'error' -> fallback
TsaTimeout(p) ==
    /\ asm[p].pc = "posting"
    /\ asm[p].idle >= timeoutMs
    /\ asm' = [asm EXCEPT ![p].pc = "stamped", ![p].timestamp = LocalProof]
    /\ UNCHANGED <<metaHash, evidence, chainVars, storageVars, exceptBundleVars>>

\* the bundle is built and hashChainService.append({type, submissionId,
\* pdfHash, ...}) is called; append first awaits this._init
AssembleAppendCall(p) ==
    /\ asm[p].pc = "stamped"
    /\ ap[p].pc = "idle"
    /\ ap' = [ap EXCEPT ![p] = [pc |-> "awaitInit",
                                data |-> AnchorData(asm[p].submissionId, asm[p].pdfHash),
                                entries |-> <<>>]]
    /\ appendCalls' = appendCalls + 1
    /\ asm' = [asm EXCEPT ![p].pc = "appending"]
    /\ UNCHANGED <<chainExists, chainEntries, initDone, returned, verifyOutcome>>
    /\ UNCHANGED <<metaHash, evidence, storageVars, exceptBundleVars>>

\* append writes the list it read plus its entry and returns the entry;
\* bundle.hashChain = {index, hash, prevHash, anchoredAt}
AssembleAppendWrite(p) ==
    /\ asm[p].pc = "appending"
    /\ ap[p].pc = "loaded"
    /\ chainEntries' = Append(ap[p].entries, NewEntry(ap[p].entries, ap[p].data, now))
    /\ returned' = returned + 1
    /\ ap' = [ap EXCEPT ![p] = IdleAppend]
    /\ asm' = [asm EXCEPT ![p].pc = "anchored",
                          ![p].hashChain = AnchorOf(NewEntry(ap[p].entries, ap[p].data, now))]
    /\ UNCHANGED <<chainExists, initDone, appendCalls, verifyOutcome>>
    /\ UNCHANGED <<metaHash, evidence, storageVars, exceptBundleVars>>

\* the bundle is encrypted under evidence:<id> and written to
\* metadata/<id>.evidence; assembleAndStore returns {success: true, ...}
AssembleWriteEvidence(p) ==
    /\ asm[p].pc = "anchored"
    /\ evidence' = [evidence EXCEPT ![asm[p].submissionId] = BundleOf(asm[p])]
    /\ asm' = [asm EXCEPT ![p].pc = "done"]
    /\ UNCHANGED <<metaHash, chainVars, storageVars, exceptBundleVars>>

InitBundle ==
    /\ InitChainIdle /\ InitStorageIdle /\ InitTokenIdle
    /\ InitCallIdle /\ InitOtpIdle /\ InitAsmIdle /\ InitCryptIdle /\ InitIoIdle /\ InitGrantIdle
    /\ InitHistIdle
    /\ tsa \in [url : BOOLEAN, impl : TsaImpls]
    /\ now = 0

NextBundle ==
    \/ Initialize
    \/ \E p \in Appenders, buffer \in Pdfs : AssembleStore(p, buffer)
    \/ \E p \in Appenders : GetTimestampCall(p)
    \/ \E p \in Appenders, ok \in BOOLEAN : TsqDone(p, ok)
    \/ \E p \in Appenders : IdleTick(p)
    \/ \E p \in Appenders : TsaChunk(p)
    \/ \E p \in Appenders, ok \in BOOLEAN : TsaRespond(p, ok)
    \/ \E p \in Appenders : TsaError(p)
    \/ \E p \in Appenders : TsaTimeout(p)
    \/ \E p \in Appenders : AssembleAppendCall(p)
    \/ \E p \in Appenders : AppendRead(p)
    \/ \E p \in Appenders : AssembleAppendWrite(p)
    \/ \E p \in Appenders : AssembleWriteEvidence(p)

SpecBundle == InitBundle /\ [][NextBundle]_vars

\* The steps the process itself takes are taken when they can be: the event
\* loop runs every callback that is ready, the operating system ends or
\* kills the openssl child, and time passes. Nothing is assumed about what
\* the authority sends, or when.
FairBundle ==
    /\ WF_vars(Initialize)
    /\ \A p \in Appenders :
        /\ WF_vars(GetTimestampCall(p))
        /\ WF_vars(\E ok \in BOOLEAN : TsqDone(p, ok))
        /\ WF_vars(IdleTick(p))
        /\ WF_vars(TsaTimeout(p))
        /\ WF_vars(AssembleAppendCall(p))
        /\ WF_vars(AppendRead(p))
        /\ WF_vars(AssembleAppendWrite(p))
        /\ WF_vars(AssembleWriteEvidence(p))

SpecBundleFair == SpecBundle /\ FairBundle

-----------------------------------------------------------------------------
(* Evidence bundles: claims *)

\* C17: for every assembleAndStore call that has returned for a document B
\* and created submission S, the bundle's pdfHash equals the hash in S's
\* stored metadata, the chain entry at the bundle's anchor index is the
\* anchored entry and carries submissionId = S, and the chain is well formed.
C17_BundleAnchoredInChain ==
    \A p \in Appenders :
        asm[p].pc = "done" =>
            LET b == evidence[asm[p].submissionId]
                i == b.hashChain.index
            IN  /\ b.submissionId = asm[p].submissionId
                /\ b.pdfHash = metaHash[asm[p].submissionId]
                /\ b.pdfHash = calculateHash(asm[p].pdf)
                /\ ChainWellFormed(chainEntries)
                /\ i >= 1
                /\ Len(chainEntries) >= i + 1
                /\ chainEntries[i + 1].hash = b.hashChain.hash
                /\ chainEntries[i + 1].data = AnchorData(asm[p].submissionId, b.pdfHash)

\* C18: a proof getTimestamp returned with type 'local' carries
\* degraded = true, in the call and in the stored bundle, and a proof with
\* type 'tsa' carries a token the authority answered with.
C18_FallbackMarkedDegraded ==
    \A p \in Appenders :
        /\ asm[p].timestamp.type = "local" => asm[p].timestamp.degraded = "true"
        /\ asm[p].timestamp.type = "tsa" => asm[p].timestamp.answered
        /\ asm[p].pc = "done" =>
                evidence[asm[p].submissionId].timestamp = asm[p].timestamp

\* C19: a getTimestamp call that has asked the authority eventually returns
\* a proof, and an assembleAndStore call that has stored its submission
\* eventually returns.
C19_TimestampRequestReturns ==
    \A p \in Appenders :
        /\ (asm[p].pc \in {"tsq", "posting"}) ~> (asm[p].timestamp # NoProof)
        /\ (asm[p].pc = "stored") ~> (asm[p].pc = "done")

-----------------------------------------------------------------------------
(* EncryptionService: AES-256-GCM with a key derived per salt and context *)

\* this.config.getKey()
masterKey == "master-key"

\* this.config.tagLength: the bytes cipher.getAuthTag() returns
tagLength == 16

\* a string that holds an unpaired surrogate code unit, and U+FFFD
LoneSurrogate == "<U+D800>"
ReplacementChar == "<U+FFFD>"

\* the strings handed to encrypt(); the empty one is rejected
Plaintexts == {"", "Ayse Yilmaz", "a@example.org", LoneSurrogate}

CryptContexts == {"", "email", "evidence:1"}

\* what crypto.randomBytes can return for the salt and for the iv
Salts == {"salt-1", "salt-2"}
Ivs == {"iv-1", "iv-2"}

\* the tag lengths setAuthTag accepts for GCM when createDecipheriv was
\* given no authTagLength
ValidTagLengths == {4, 8, 12, 13, 14, 15, 16}

\* the components encrypt() and decrypt() leave alone
exceptCryptVars == <<chainVars, storageVars, tokenVars, callVars, otpVars, bundleVars, stampVars, ioVars, grantVars, histVars, now>>

\* Buffer.from(str, 'utf8') / cipher.update(str, 'utf8'): an unpaired
\* surrogate is encoded as U+FFFD
Utf8Encode(str) == IF str = LoneSurrogate THEN ReplacementChar ELSE str

\* buffer.toString('utf8')
Utf8Decode(bytes) == bytes

\* Buffer.from(str, 'base64'): the bytes, whatever form the text has
FromBase64(b64) == b64.bytes

\* !field: the empty string
IsEmptyField(b64) == b64.bytes = "" /\ b64.form = "canonical"

\* deriveKey: PBKDF2 of the master key over Buffer.concat([salt, info])
deriveKey(key, salt, context) == <<"pbkdf2", key, salt \o Utf8Encode(context)>>

\* cipher.update + cipher.final
GcmEncrypt(key, iv, bytes) == [key |-> key, iv |-> iv, pt |-> bytes]

\* decipher.update + decipher.final, tag aside: the plaintext bytes under
\* the same key stream, other bytes under another
GcmDecrypt(key, iv, ct) ==
    IF ct.key = key /\ ct.iv = iv THEN ct.pt ELSE "garbage"

\* cipher.getAuthTag(): tagLength bytes over the key, iv, AAD and ciphertext
GcmTag(key, iv, aad, ct) == [mac |-> <<"ghash", key, iv, aad, ct>>, len |-> tagLength]

\* decipher.setAuthTag(tag) and decipher.final(): the length must be one
\* GCM allows, and the bytes given must be the leading bytes of the tag
TagVerifies(tag, key, iv, aad, ct) ==
    /\ tag.len \in ValidTagLengths
    /\ tag.mac = GcmTag(key, iv, aad, ct).mac

\* encrypt(plaintext, context) with the salt and iv randomBytes returned
EncryptBlob(plaintext, context, salt, iv) ==
    LET key == deriveKey(masterKey, salt, context)
        ct == GcmEncrypt(key, iv, Utf8Encode(plaintext))
    IN  [encrypted |-> Base64(ct), salt |-> Base64(salt), iv |-> Base64(iv),
         tag |-> Base64(GcmTag(key, iv, Utf8Encode(context), ct)), context |-> context]

Failed == [status |-> "Failed to decrypt data", plaintext |-> ""]

Decrypted(str) == [status |-> "ok", plaintext |-> str]

\* decrypt(encryptedData)
DecryptBlob(b) ==
    IF \/ FromBase64(b.encrypted).pt = ""
       \/ IsEmptyField(b.salt) \/ IsEmptyField(b.iv)
       \/ FromBase64(b.tag).len = 0
    THEN Failed
    ELSE LET key == deriveKey(masterKey, FromBase64(b.salt), b.context)
             iv == FromBase64(b.iv)
             ct == FromBase64(b.encrypted)
         IN  IF TagVerifies(FromBase64(b.tag), key, iv, Utf8Encode(b.context), ct)
             THEN Decrypted(Utf8Decode(GcmDecrypt(key, iv, ct)))
             ELSE Failed

BlobFields == {"context", "encrypted", "iv", "salt", "tag"}

\* how a stored blob can be changed: "bytes" gives the field other bytes,
\* "recoded" another base64 text for the same bytes (padding dropped, a
\* line break added), "truncated" the leading four bytes of the tag
Changes == {"bytes", "recoded", "truncated"}

\* the blob with one field changed; other is the value a context, salt or iv
\* is replaced with
ChangedBlob(b, field, how, other) ==
    IF field = "context" THEN [b EXCEPT !.context = other]
    ELSE IF how = "recoded" THEN [b EXCEPT ![field].form = "other"]
    ELSE IF field = "encrypted"
         THEN [b EXCEPT !.encrypted.bytes.pt = "flipped:" \o b.encrypted.bytes.pt]
    ELSE IF field = "tag"
         THEN IF how = "truncated" THEN [b EXCEPT !.tag.bytes.len = 4]
              ELSE [b EXCEPT !.tag.bytes.mac = <<"forged">>]
    ELSE [b EXCEPT ![field].bytes = other]

\* encrypt(plaintext, context): a plaintext that is empty throws
\* 'Failed to encrypt data'
Encrypt(plaintext, context, salt, iv) ==
    /\ crypt.pc \in {"idle", "rejected", "decrypted"}
    /\ crypt' = IF plaintext = ""
                THEN [IdleCrypt EXCEPT !.pc = "rejected", !.context = context]
                ELSE [IdleCrypt EXCEPT !.pc = "sealed", !.plaintext = plaintext,
                                       !.context = context,
                                       !.sealed = EncryptBlob(plaintext, context, salt, iv),
                                       !.blob = EncryptBlob(plaintext, context, salt, iv)]
    /\ UNCHANGED exceptCryptVars

\* the stored blob is changed in one field
Tamper(field, how, other) ==
    /\ crypt.pc = "sealed"
    /\ crypt.changed = "none"
    /\ how = "truncated" => field = "tag"
    /\ field = "context" => how = "bytes" /\ other \in CryptContexts
    /\ field = "salt" /\ how = "bytes" => other \in Salts
    /\ field = "iv" /\ how = "bytes" => other \in Ivs
    /\ ChangedBlob(crypt.blob, field, how, other) # crypt.blob
    /\ crypt' = [crypt EXCEPT !.blob = ChangedBlob(crypt.blob, field, how, other),
                              !.changed = field, !.how = how]
    /\ UNCHANGED exceptCryptVars

\* decrypt(blob)
Decrypt ==
    /\ crypt.pc = "sealed"
    /\ crypt' = [crypt EXCEPT !.pc = "decrypted", !.result = DecryptBlob(crypt.blob)]
    /\ UNCHANGED exceptCryptVars

InitCrypt ==
    /\ InitChainIdle /\ InitStorageIdle /\ InitTokenIdle
    /\ InitPeersIdle
    /\ now = 0

NextCrypt ==
    \/ \E plaintext \in Plaintexts, context \in CryptContexts, salt \in Salts, iv \in Ivs :
            Encrypt(plaintext, context, salt, iv)
    \/ \E field \in BlobFields, how \in Changes, other \in CryptContexts \cup Salts \cup Ivs :
            Tamper(field, how, other)
    \/ Decrypt

SpecCrypt == InitCrypt /\ [][NextCrypt]_vars

\* C20: decrypt of the blob encrypt(x, c) returned gives x back, for every
\* non-empty string x and every context c; decrypt of a blob whose context,
\* ciphertext, iv, salt or tag was changed after encryption fails and
\* returns no plaintext.
C20_RoundTripAndTamperEvident ==
    crypt.pc = "decrypted" =>
        IF crypt.changed = "none"
        THEN crypt.result = Decrypted(crypt.plaintext)
        ELSE crypt.result = Failed

-----------------------------------------------------------------------------
(* StorageService with file operations that can fail *)

\* this.config.overwritePasses
overwritePasses == 3

\* the components these calls leave alone
exceptIoVars == <<chainVars, tokenVars, callVars, otpVars, bundleVars, stampVars, cryptVars, grantVars, histVars, now>>

\* the file of unit u of submission id exists
UnitExists(id, u) == id \in SubIds /\ files[id][u] # "absent"

\* a writeSecureFile of storeSubmission throws: the catch block rethrows
\* 'Failed to store submission securely'; what was written stays
StoreWriteFails ==
    /\ st.pc \in {"pdf", "meta"}
    /\ st' = IdleStore
    /\ UNCHANGED <<files, expiryOf, nextId, rt, sw, sweptExpired>>
    /\ UNCHANGED <<chainVars, tokenVars, now, peerVars>>

\* deleteSubmission(id) is called: the UUID check, then the first file
DeleteBegin(id) ==
    /\ io.pc \in {"idle", "done"}
    /\ st.pc = "idle"
    /\ io' = IF isValidUUID(id)
             THEN [IdleIo EXCEPT !.pc = "stat", !.op = "delete", !.id = id, !.unit = "form"]
             ELSE [IdleIo EXCEPT !.pc = "done", !.op = "delete", !.id = id,
                                 !.result = "Failed to delete submission"]
    /\ UNCHANGED <<storageVars, exceptIoVars>>

\* the for loop of deleteSubmission goes to the next file, or the call
\* returns {success: true, deletedFiles}; inside cleanupExpiredSubmissions
\* the return is followed by deletedCount++
AfterFile(rec) ==
    IF NextUnit(rec.unit) # "none"
    THEN [rec EXCEPT !.pc = "stat", !.unit = NextUnit(rec.unit), !.passes = 0]
    ELSE IF rec.op = "delete"
    THEN [rec EXCEPT !.pc = "done", !.unit = "none", !.result = "success"]
    ELSE [rec EXCEPT !.pc = "pick", !.unit = "none", !.id = NoSub,
                     !.deletedCount = @ + 1, !.counted = @ \cup {rec.id}]

\* secureDeleteFile: await fs.stat(filePath); it throws for a file that
\* does not exist, and the catch block takes over
SecureDeleteStat(ok) ==
    /\ io.pc = "stat"
    /\ ok => UnitExists(io.id, io.unit)
    /\ io' = [io EXCEPT !.pc = IF ok THEN "write" ELSE "fallback", !.passes = 0]
    /\ UNCHANGED <<storageVars, exceptIoVars>>

\* secureDeleteFile: one pass of await fs.writeFile(filePath, randomData)
SecureDeleteOverwrite(ok) ==
    /\ io.pc = "write"
    /\ io.passes < overwritePasses
    /\ IF ok
       THEN /\ files' = [files EXCEPT ![io.id][io.unit] = "garbage"]
            /\ io' = [io EXCEPT !.passes = @ + 1]
       ELSE /\ io' = [io EXCEPT !.pc = "fallback"]
            /\ UNCHANGED files
    /\ UNCHANGED <<expiryOf, nextId, st, rt, sw, sweptExpired, exceptIoVars>>

\* secureDeleteFile: the final await fs.unlink(filePath) after the loop
SecureDeleteUnlink(ok) ==
    /\ io.pc = "write"
    /\ io.passes = overwritePasses
    /\ IF ok
       THEN /\ files' = [files EXCEPT ![io.id][io.unit] = "absent"]
            /\ io' = AfterFile([io EXCEPT !.deletedFiles = @ + 1,
                                          !.wiped = @ \cup {<<io.id, io.unit>>}])
       ELSE /\ io' = [io EXCEPT !.pc = "fallback"]
            /\ UNCHANGED files
    /\ UNCHANGED <<expiryOf, nextId, st, rt, sw, sweptExpired, exceptIoVars>>

\* secureDeleteFile, catch block: await fs.unlink(filePath) without more
\* ado; when it throws too, deleteSubmission logs a warning and goes on
SecureDeleteFallback(ok) ==
    /\ io.pc = "fallback"
    /\ ok => UnitExists(io.id, io.unit)
    /\ IF ok
       THEN /\ files' = [files EXCEPT ![io.id][io.unit] = "absent"]
            /\ io' = AfterFile([io EXCEPT
                        !.deletedFiles = @ + 1,
                        !.plain = IF io.passes < overwritePasses
                                  THEN @ \cup {<<io.id, io.unit>>} ELSE @,
                        !.wiped = IF io.passes < overwritePasses
                                  THEN @ ELSE @ \cup {<<io.id, io.unit>>}])
       ELSE /\ io' = AfterFile([io EXCEPT !.failed = @ \cup {<<io.id, io.unit>>}])
            /\ UNCHANGED files
    /\ UNCHANGED <<expiryOf, nextId, st, rt, sw, sweptExpired, exceptIoVars>>

\* cleanupExpiredSubmissions: listSubmissions().filter(s => s.expired)
CleanupBegin ==
    /\ io.pc \in {"idle", "done"}
    /\ st.pc = "idle"
    /\ io' = [IdleIo EXCEPT !.pc = "pick", !.op = "cleanup", !.queue = ListExpired(files)]
    /\ UNCHANGED <<storageVars, exceptIoVars>>

\* cleanupExpiredSubmissions: await this.deleteSubmission(submission.id)
CleanupPick(s) ==
    /\ io.pc = "pick"
    /\ s \in io.queue
    /\ io' = [io EXCEPT !.pc = "stat", !.id = s, !.unit = "form", !.passes = 0,
                        !.queue = @ \ {s}]
    /\ UNCHANGED <<storageVars, exceptIoVars>>

\* cleanupExpiredSubmissions: the loop is over; log and return
\* {success, totalExpired, deletedCount, errors}
CleanupReturn ==
    /\ io.pc = "pick"
    /\ io.queue = {}
    /\ io' = [io EXCEPT !.pc = "done", !.result = "success"]
    /\ UNCHANGED <<storageVars, exceptIoVars>>

\* a storeSubmission call starts while no other call is in flight
StoreBeginAlone == io.pc \in {"idle", "done"} /\ StoreBegin

\* the clock runs until what was stored at the start has expired
FaultHorizon == RetentionTicks + 1

FaultTick == now < FaultHorizon /\ io.pc \in {"idle", "done"} /\ Tick

InitStorageFaults ==
    /\ InitChainIdle /\ InitStorageIdle /\ InitTokenIdle /\ InitPeersIdle
    /\ now = 0

NextStorageFaults ==
    \/ StoreBeginAlone
    \/ StorePdf
    \/ StoreMeta
    \/ StoreWriteFails
    \/ \E id \in RetrieveIds : DeleteBegin(id)
    \/ \E ok \in BOOLEAN : SecureDeleteStat(ok)
    \/ \E ok \in BOOLEAN : SecureDeleteOverwrite(ok)
    \/ \E ok \in BOOLEAN : SecureDeleteUnlink(ok)
    \/ \E ok \in BOOLEAN : SecureDeleteFallback(ok)
    \/ CleanupBegin
    \/ \E s \in SubIds : CleanupPick(s)
    \/ CleanupReturn
    \/ FaultTick

SpecStorageFaults == InitStorageFaults /\ [][NextStorageFaults]_vars

\* C21: every unit a deleteSubmission call has unlinked was unlinked after
\* overwritePasses passes of random bytes had been written over it.
C21_OverwrittenBeforeUnlink == io.plain = {}

-----------------------------------------------------------------------------
(* TokenService, call by call: what each call is given and what it returns *)

\* what a request presents as its token: a token this service signed, a token
\* with the payload of one but another signature, or a string that is no JWT
TokenKinds == {"valid", "forged", "malformed"}

\* req.ip and req.get('User-Agent')
Ips == {"10.0.0.1", "10.0.0.2"}
UserAgents == {"ua-1", "ua-2"}
Contexts == [ip : Ips \cup {NoIp}, userAgent : UserAgents]

\* tokenData.ip && context.ip && tokenData.ip !== context.ip
IpMismatch(t, ctx) == tk.ip[t] # NoIp /\ ctx.ip # NoIp /\ tk.ip[t] # ctx.ip

VerifyTokenInner_Unsigned(kind, t) == VerifyInner(t)

\* verifyDownloadToken: jwt.verify throws JsonWebTokenError for a string that
\* is no JWT or whose signature does not verify, before anything else is read
VerifyTokenInner(kind, t) ==
    IF kind \in {"forged", "malformed"} THEN "JsonWebTokenError" ELSE VerifyInner(t)

MismatchOutcome_Throws(inner, mismatch) == IF mismatch THEN "IP mismatch" ELSE inner

\* verifyDownloadToken: "Don't fail on IP mismatch, just log it"
MismatchOutcome(inner, mismatch) == inner

\* verifyDownloadToken with its context: the error raised inside, or "ok"
GrantVerdict(kind, t, ctx) ==
    LET checked == VerifyTokenInner(kind, t)
    IN IF checked = "ok" THEN MismatchOutcome(checked, IpMismatch(t, ctx)) ELSE checked

VerifyEffect_Counts(tokens, t) ==
    IF tokens[t].present THEN [tokens EXCEPT ![t].downloadCount = @ + 1] ELSE tokens

\* verifyDownloadToken reads activeTokens and writes nothing
VerifyEffect(tokens, t) == tokens

\* GET /file: the middleware's verifyDownloadToken, then recordDownload
RedeemTable(kind, t, ctx) ==
    IF GrantVerdict(kind, t, ctx) = "ok"
    THEN IncrementCount(VerifyEffect(activeTokens, t), t)
    ELSE VerifyEffect(activeTokens, t)

ExpiredRecords_Present(tokens) == {t \in TokenIds : tokens[t].present}

\* cleanupExpiredTokens: now > tokenData.expiresAt
ExpiredRecords(tokens) == {t \in TokenIds : tokens[t].present /\ now > tokens[t].expiresAt}

\* the record of a call: what it was given, the state it met, what it
\* returned or threw, and what it did to the table
GrantCall(op, kind, t, inner, mismatch, after) ==
    [op |-> op, token |-> t, kind |-> kind, inner |-> inner,
     thrown |-> IF inner = "ok" THEN "none" ELSE VerifyThrown(inner),
     submissionId |-> IF inner = "ok" THEN activeTokens[t].submissionId ELSE NoSub,
     changed |-> after # activeTokens,
     removed |-> {u \in TokenIds : activeTokens[u].present /\ ~after[u].present},
     mismatch |-> mismatch,
     present |-> activeTokens[t].present,
     exhausted |-> activeTokens[t].present
                   /\ activeTokens[t].downloadCount >= activeTokens[t].maxDownloads,
     used |-> jwt[t].issued /\ delivered[t] >= jwt[t].maxDownloads,
     expired |-> jwt[t].issued /\ now >= jwt[t].exp,
     past |-> jwt[t].issued /\ now > jwt[t].exp,
     count |-> after[t].downloadCount - activeTokens[t].downloadCount]

\* a call that is given no token: the table before and after
TableCall(op, after) ==
    [NoGrantCall EXCEPT !.op = op, !.changed = after # activeTokens,
        !.removed = {u \in TokenIds : activeTokens[u].present /\ ~after[u].present}]

\* generateDownloadToken(submissionId, options) with options.ip
GrantIssue(t, s, ttl, maxOpt, ip) ==
    /\ FreshToken(t)
    /\ jwt' = [jwt EXCEPT ![t] = [issued |-> TRUE, sub |-> s, exp |-> now + ttl,
                                  maxDownloads |-> MaxDownloadsOf(maxOpt)]]
    /\ activeTokens' = [activeTokens EXCEPT ![t] =
            [present |-> TRUE, submissionId |-> s, expiresAt |-> now + ttl,
             downloadCount |-> 0, maxDownloads |-> MaxDownloadsOf(maxOpt)]]
    /\ tk' = [tk EXCEPT !.ip[t] = ip, !.last = TableCall("issue", activeTokens')]
    /\ UNCHANGED <<timers, dl, delivered, revoked>>
    /\ UNCHANGED <<chainVars, storageVars, now, callVars, otpVars, bundleVars,
                   stampVars, cryptVars, ioVars, histVars>>

\* verifyDownloadToken(token, context) on its own
GrantVerify(kind, t, ctx) ==
    /\ kind = "valid" => jwt[t].issued
    /\ activeTokens' = VerifyEffect(activeTokens, t)
    /\ tk' = [tk EXCEPT !.last = GrantCall("verify", kind, t, GrantVerdict(kind, t, ctx),
                                           IpMismatch(t, ctx), activeTokens')]
    /\ UNCHANGED <<jwt, timers, dl, delivered, revoked>>
    /\ UNCHANGED <<chainVars, storageVars, now, callVars, otpVars, bundleVars,
                   stampVars, cryptVars, ioVars, histVars>>

\* one redemption run to completion: the tokenValidation middleware, then
\* recordDownload when validation passed
GrantRedeem(kind, t, ctx) ==
    /\ kind = "valid" => jwt[t].issued
    /\ activeTokens' = RedeemTable(kind, t, ctx)
    /\ IF GrantVerdict(kind, t, ctx) = "ok"
       THEN /\ timers' = timers \cup ScheduleCleanup(activeTokens', t)
            /\ delivered' = [delivered EXCEPT ![t] = @ + 1]
       ELSE UNCHANGED <<timers, delivered>>
    /\ tk' = [tk EXCEPT !.last = GrantCall("redeem", kind, t, GrantVerdict(kind, t, ctx),
                                           IpMismatch(t, ctx), activeTokens')]
    /\ UNCHANGED <<jwt, dl, revoked>>
    /\ UNCHANGED <<chainVars, storageVars, now, callVars, otpVars, bundleVars,
                   stampVars, cryptVars, ioVars, histVars>>

\* the callback recordDownload scheduled runs: this.revokeToken(tokenId)
GrantTimerFire(tm) ==
    /\ tm \in timers
    /\ now >= tm[2]
    /\ timers' = timers \ {tm}
    /\ activeTokens' = DeleteRecord(activeTokens, tm[1])
    /\ tk' = [tk EXCEPT !.last = TableCall("timer", activeTokens')]
    /\ UNCHANGED <<jwt, dl, delivered, revoked>>
    /\ UNCHANGED <<chainVars, storageVars, now, callVars, otpVars, bundleVars,
                   stampVars, cryptVars, ioVars, histVars>>

\* revokeToken(tokenId), as DELETE /token/:tokenId calls it
GrantRevoke(t) ==
    /\ activeTokens[t].present
    /\ activeTokens' = DeleteRecord(activeTokens, t)
    /\ revoked' = revoked \cup {t}
    /\ tk' = [tk EXCEPT !.last = TableCall("revoke", activeTokens')]
    /\ UNCHANGED <<jwt, timers, dl, delivered>>
    /\ UNCHANGED <<chainVars, storageVars, now, callVars, otpVars, bundleVars,
                   stampVars, cryptVars, ioVars, histVars>>

\* cleanupExpiredTokens, as the hourly interval calls it
GrantSweep ==
    /\ activeTokens' = [t \in TokenIds |->
            IF t \in ExpiredRecords(activeTokens) THEN NoRecord ELSE activeTokens[t]]
    /\ tk' = [tk EXCEPT !.last = TableCall("sweep", activeTokens')]
    /\ UNCHANGED <<jwt, timers, dl, delivered, revoked>>
    /\ UNCHANGED <<chainVars, storageVars, now, callVars, otpVars, bundleVars,
                   stampVars, cryptVars, ioVars, histVars>>

GrantTick ==
    /\ now < TokenHorizon
    /\ now' = now + 1
    /\ UNCHANGED <<chainVars, storageVars, tokenVars, peerVars>>

\* the grant the calls are made about; the table operations range over
\* every record
GrantIds == {RaceToken}

NextGrant ==
    \/ \E t \in GrantIds, s \in SubIds, ttl \in TtlOptions, m \in MaxDownloadOptions,
          ip \in Ips \cup {NoIp} : GrantIssue(t, s, ttl, m, ip)
    \/ \E kind \in TokenKinds, t \in GrantIds, ctx \in Contexts : GrantVerify(kind, t, ctx)
    \/ \E kind \in TokenKinds, t \in GrantIds, ctx \in Contexts : GrantRedeem(kind, t, ctx)
    \/ \E tm \in timers : GrantTimerFire(tm)
    \/ \E t \in GrantIds : GrantRevoke(t)
    \/ GrantSweep
    \/ GrantTick

\* token service calls one after the other, each with its request context
SpecGrant == InitTokenSpec /\ [][NextGrant]_vars

\* C22: a redemption attempt with a forged, malformed or expired token fails
\* at the signature and expiry check, whatever the grant table holds for its
\* tokenId, and leaves the table as it was.
C22_InvalidTokenRejectedFirst ==
    LET c == tk.last
    IN (c.op \in {"verify", "redeem"} /\ (c.kind \in {"forged", "malformed"} \/ c.expired)) =>
        /\ c.inner \in {"JsonWebTokenError", "TokenExpiredError"}
        /\ c.thrown = IF c.kind = "valid" THEN "Download link has expired"
                      ELSE "Invalid download token"
        /\ ~c.changed /\ c.removed = {} /\ c.count = 0

\* C22 witness: a forged token naming a live, unexpired, unexhausted grant
\* was presented for redemption.
C22_Witness ==
    LET c == tk.last
    IN /\ c.op = "redeem" /\ c.kind = "forged"
       /\ c.present /\ ~c.exhausted /\ ~c.expired

\* C23: a redemption that brings the use count to maxUses leaves the record
\* in the table with its removal scheduled; an attempt made on a grant that
\* has reached maxUses fails, as exhausted while the record is still there
\* and as not found once it has been removed.
C23_ExhaustedThenNotFound ==
    LET c == tk.last
    IN /\ (c.op = "redeem" /\ c.inner = "ok" /\ activeTokens[c.token].downloadCount
                >= activeTokens[c.token].maxDownloads /\ c.count = 1) =>
            /\ activeTokens[c.token].present
            /\ \E tm \in timers : tm[1] = c.token
       /\ (c.op = "redeem" /\ c.kind = "valid" /\ c.used) =>
            /\ c.inner # "ok"
            /\ c.present => c.thrown = "Download limit exceeded"
            /\ ~c.present => c.thrown = "Token not found or has been revoked"

\* C24: in every state, a redemption of the same token under any two request
\* contexts has the same outcome and leaves the same table (so the same change
\* of the use count), and a redemption whose ip differs from the ip bound at
\* issuance succeeds whenever the grant is live, unexpired and unexhausted.
C24_BoundContextAdvisory ==
    /\ \A kind \in TokenKinds, t \in TokenIds, c1 \in Contexts, c2 \in Contexts :
        (kind = "valid" => jwt[t].issued) =>
            /\ GrantVerdict(kind, t, c1) = GrantVerdict(kind, t, c2)
            /\ RedeemTable(kind, t, c1) = RedeemTable(kind, t, c2)
    /\ LET c == tk.last
       IN (c.op = "redeem" /\ c.kind = "valid" /\ c.mismatch
                /\ c.present /\ ~c.exhausted /\ ~c.expired) =>
            c.inner = "ok" /\ c.count = 1

\* C24 witness: a grant bound to one ip was redeemed from another ip.
C24_Witness ==
    LET c == tk.last
    IN /\ c.op = "redeem" /\ c.kind = "valid" /\ c.mismatch
       /\ tk.ip[c.token] \in Ips
       /\ c.inner = "ok" /\ c.count = 1

-----------------------------------------------------------------------------
(* Evidence bundles under concurrent submissions: claims *)

\* C25: with assembleAndStore calls running at once, every persisted bundle
\* names a chain index at which the persisted chain holds an entry with the
\* bundle's anchor hash and the bundle's submissionId in its data, and no two
\* persisted bundles name the same index.
C25_AnchorsPresentAndDistinct ==
    /\ \A s \in SubIds :
        evidence[s] # NoBundle =>
            LET i == evidence[s].hashChain.index
            IN  /\ evidence[s].submissionId = s
                /\ i >= 1
                /\ Len(chainEntries) >= i + 1
                /\ chainEntries[i + 1].hash = evidence[s].hashChain.hash
                /\ chainEntries[i + 1].data = AnchorData(s, evidence[s].pdfHash)
    /\ \A s1 \in SubIds, s2 \in SubIds :
        (s1 # s2 /\ evidence[s1] # NoBundle /\ evidence[s2] # NoBundle) =>
            evidence[s1].hashChain.index # evidence[s2].hashChain.index

\* C26: whenever no storage call is in flight, also after a store or a delete
\* that failed part-way, every form or pdf unit on disk has the metadata unit
\* of the same id beside it.
C26_NoUnitWithoutMetadata ==
    (st.pc = "idle" /\ io.pc \in {"idle", "done"}) =>
        \A s \in SubIds :
            (UnitExists(s, "form") \/ UnitExists(s, "pdf")) => UnitExists(s, "meta")

\* deleteSubmission(id) for a submission an assembleAndStore call has
\* returned for
DeleteAssembled(id) ==
    /\ \E p \in Appenders : asm[p].pc = "done" /\ asm[p].submissionId = id
    /\ DeleteSubmissionCall(id)

NextBundleDelete ==
    \/ NextBundle
    \/ \E id \in SubIds : DeleteAssembled(id)

\* evidence bundles are assembled and their submissions deleted
SpecBundleDelete == InitBundle /\ [][NextBundleDelete]_vars

\* C27: after deleteSubmission(id) has returned success for a submission
\* created through assembleAndStore, none of its form, pdf and metadata units
\* is on disk and its encrypted evidence bundle is gone too.
C27_DeleteRemovesEvidence ==
    (lastCall.op = "delete" /\ lastCall.result = "success") =>
        /\ \A u \in Units : ~UnitExists(lastCall.id, u)
        /\ evidence[lastCall.id] = NoBundle

-----------------------------------------------------------------------------
(* StorageService with failing file operations: claims about the sweep *)

\* C28: when cleanupExpiredSubmissions has returned, every submission it
\* counted in deletedCount has none of its units left, deletedCount is the
\* number of such submissions, and every submission with a unit whose
\* removal failed is named in errors.
C28_CountsOnlyFullRemovals ==
    (io.op = "cleanup" /\ io.pc = "done") =>
        /\ \A s \in io.counted : \A u \in Units : ~UnitExists(s, u)
        /\ io.deletedCount = Cardinality({s \in io.counted : \A u \in Units : <<s, u>> \notin io.failed})
        /\ \A pair \in io.failed : pair[1] \in io.errors

-----------------------------------------------------------------------------
(* TokenService, call by call: expiry and validation *)

\* C29: a verification or redemption of a token made after its expiresAt
\* has passed fails, whether its record is still in the table or not, and a
\* run of the expired-token sweep removes only records whose expiresAt has
\* passed.
C29_ExpiredGrantNeverRedeemed ==
    LET c == tk.last
    IN /\ (c.op \in {"verify", "redeem"} /\ c.kind = "valid" /\ c.past) =>
            c.inner # "ok" /\ c.count = 0
       /\ c.op = "sweep" => \A t \in c.removed : jwt[t].issued /\ now > jwt[t].exp

\* C29 witness: the sweep removed the record of an expired grant, and the
\* grant was then presented for redemption.
C29_Witness ==
    LET c == tk.last
    IN /\ c.op = "redeem" /\ c.kind = "valid" /\ c.past
       /\ ~c.present /\ ~c.used
       /\ c.token \notin revoked

\* C30: verifyDownloadToken on a token that is unexpired, unrevoked and
\* unexhausted returns success with the submissionId the token was issued
\* for and changes nothing in the table, and the same call made again
\* succeeds too while the token is unexpired.
C30_VerifyConsumesNothing ==
    LET c == tk.last
    IN (c.op = "verify" /\ c.kind = "valid" /\ c.present /\ ~c.exhausted /\ ~c.expired) =>
        /\ c.inner = "ok"
        /\ c.submissionId = jwt[c.token].sub
        /\ ~c.changed /\ c.count = 0 /\ c.removed = {}
        /\ now < jwt[c.token].exp =>
                \A ctx \in Contexts : GrantVerdict("valid", c.token, ctx) = "ok"

\* C30 witness: a grant with maxDownloads = 1 for the second submission was
\* verified before any redemption.
C30_Witness ==
    LET c == tk.last
    IN /\ c.op = "verify" /\ c.kind = "valid" /\ c.inner = "ok"
       /\ jwt[c.token].maxDownloads = 1 /\ delivered[c.token] = 0
       /\ c.submissionId \in SubIds /\ c.submissionId > 1

-----------------------------------------------------------------------------
(* GET /file: token validation, retrieval, recorded download *)

RecordAfterRetrieve_Always(retrieved, tokens, t) == IncrementCount(tokens, t)

\* GET /file: recordDownload is called after retrieveSubmission has
\* returned; when retrieveSubmission throws, the catch block answers 500
RecordAfterRetrieve(retrieved, tokens, t) ==
    IF retrieved = "ok" THEN IncrementCount(tokens, t) ELSE tokens

\* the record of a GET /file request that passed token validation: the
\* outcome of the retrieval, the response, and what was sent and counted
DownloadCall(t, retrieved, after) ==
    [NoGrantCall EXCEPT
        !.op = "download", !.token = t, !.kind = "valid", !.inner = retrieved,
        !.thrown = IF retrieved = "ok" THEN "none" ELSE "Download failed",
        !.submissionId = IF retrieved = "ok" THEN jwt[t].sub ELSE NoSub,
        !.changed = after # activeTokens,
        !.count = after[t].downloadCount - activeTokens[t].downloadCount]

\* GET /file run to completion with a token that passes validation
FileDownload(t, ctx) ==
    /\ jwt[t].issued
    /\ GrantVerdict("valid", t, ctx) = "ok"
    /\ LET retrieved == RetrieveInner(jwt[t].sub)
       IN /\ activeTokens' = RecordAfterRetrieve(retrieved, activeTokens, t)
          /\ IF retrieved = "ok"
             THEN /\ timers' = timers \cup ScheduleCleanup(activeTokens', t)
                  /\ delivered' = [delivered EXCEPT ![t] = @ + 1]
             ELSE UNCHANGED <<timers, delivered>>
          /\ tk' = [tk EXCEPT !.last = DownloadCall(t, retrieved, activeTokens')]
    /\ UNCHANGED <<jwt, dl, revoked>>
    /\ UNCHANGED <<chainVars, storageVars, now, callVars, otpVars, bundleVars,
                   stampVars, cryptVars, ioVars, histVars>>

\* a stored unit no longer decrypts (its file was damaged on disk):
\* readSecureFile or encryptionService.decrypt will throw on it
UnitDamaged(s, unit) ==
    /\ unit \in {"form", "pdf"}
    /\ UnitReadable(s, unit)
    /\ files' = [files EXCEPT ![s][unit] = "garbage"]
    /\ UNCHANGED <<expiryOf, nextId, st, rt, sw, sweptExpired>>
    /\ UNCHANGED <<chainVars, tokenVars, now, peerVars>>

\* the submissions a download link was issued for
GrantedSubs == {s \in SubIds : \E t \in GrantIds : jwt[t].issued /\ jwt[t].sub = s}

NextDownload ==
    \/ \E t \in GrantIds, s \in SubIds, ttl \in TtlOptions, m \in MaxDownloadOptions :
        GrantIssue(t, s, ttl, m, NoIp)
    \/ \E t \in GrantIds, ctx \in Contexts : FileDownload(t, ctx)
    \/ \E s \in GrantedSubs, unit \in Units : UnitDamaged(s, unit)
    \/ \E s \in GrantedSubs : DeleteSubmissionCall(s)
    \/ \E tm \in timers : GrantTimerFire(tm)
    \/ GrantTick

\* downloads of stored submissions that expire, are deleted or are damaged
SpecDownload == InitTokenSpec /\ [][NextDownload]_vars

\* C31: a GET /file request that passed token validation and whose retrieval
\* failed left the use count and the grant table as they were and sent no
\* artifact; a request that raised the use count had retrieved its submission.
C31_FailedRetrievalConsumesNothing ==
    LET c == tk.last
    IN c.op = "download" =>
        /\ c.inner # "ok" => (c.count = 0 /\ ~c.changed /\ c.submissionId = NoSub
                              /\ c.thrown = "Download failed")
        /\ c.count # 0 => (c.inner = "ok" /\ c.count = 1)

\* C31 witness: a request with a valid token for a submission whose pdf unit
\* no longer decrypts was answered with 500.
C31_Witness ==
    LET c == tk.last
    IN /\ c.op = "download" /\ c.inner = "read failed"
       /\ activeTokens[c.token].present /\ activeTokens[c.token].downloadCount = 0

-----------------------------------------------------------------------------
(* TokenService: the cleanup scheduler, and graceful shutdown *)

\* startCleanupScheduler, as server start calls it once: setInterval arms the
\* sweep; the handle setInterval returns is not stored
StartCleanupScheduler ==
    /\ ~tk.sched.armed /\ ~tk.sched.stopped
    /\ tk' = [tk EXCEPT !.sched.armed = TRUE]
    /\ UNCHANGED <<chainVars, storageVars, tokenVars, now, callVars, otpVars, bundleVars,
                   stampVars, cryptVars, ioVars, histVars>>

\* gracefulShutdown calls stopCleanupScheduler:
\* if (this.cleanupInterval) { clearInterval(...); this.cleanupInterval = null }
StopCleanupScheduler ==
    /\ ~tk.sched.stopped
    /\ tk' = IF tk.sched.cleanupInterval = "handle"
             THEN [tk EXCEPT !.sched.armed = FALSE, !.sched.cleanupInterval = "null",
                             !.sched.stopped = TRUE]
             ELSE [tk EXCEPT !.sched.stopped = TRUE]
    /\ UNCHANGED <<chainVars, storageVars, tokenVars, now, callVars, otpVars, bundleVars,
                   stampVars, cryptVars, ioVars, histVars>>

\* the setInterval callback runs: this.cleanupExpiredTokens()
IntervalFire ==
    /\ tk.sched.armed /\ ~tk.sched.exited
    /\ activeTokens' = [t \in TokenIds |->
            IF t \in ExpiredRecords(activeTokens) THEN NoRecord ELSE activeTokens[t]]
    /\ tk' = [tk EXCEPT !.last = TableCall("sweep", activeTokens'),
                        !.sched.ranAfterStop = @ \/ tk.sched.stopped]
    /\ UNCHANGED <<jwt, timers, dl, delivered, revoked>>
    /\ UNCHANGED <<chainVars, storageVars, now, callVars, otpVars, bundleVars,
                   stampVars, cryptVars, ioVars, histVars>>

\* gracefulShutdown: the callback of serverInstance.close runs once the open
\* connections have ended: process.exit(0)
ProcessExit ==
    /\ tk.sched.stopped /\ ~tk.sched.exited
    /\ tk' = [tk EXCEPT !.sched.exited = TRUE]
    /\ UNCHANGED <<chainVars, storageVars, tokenVars, now, callVars, otpVars, bundleVars,
                   stampVars, cryptVars, ioVars, histVars>>

\* a request is served while the process runs
IssueWhileRunning(t, s, ttl, m) == ~tk.sched.exited /\ GrantIssue(t, s, ttl, m, NoIp)

NextScheduler ==
    \/ StartCleanupScheduler
    \/ StopCleanupScheduler
    \/ IntervalFire
    \/ ProcessExit
    \/ \E t \in TokenIds, s \in SubIds, ttl \in TtlOptions, m \in MaxDownloadOptions :
        IssueWhileRunning(t, s, ttl, m)
    \/ GrantTick

\* the token service from server start to shutdown
SpecScheduler == InitTokenSpec /\ [][NextScheduler]_vars

\* C32: the periodic sweep started by startCleanupScheduler does not run
\* after stopCleanupScheduler has been called.
C32_NoSweepAfterStop == ~tk.sched.ranAfterStop

-----------------------------------------------------------------------------
(* OTP challenges: a request that fails *)

\* C33: after a requestOTP call that threw (no recipient, or the e-mail could
\* not be sent) the store holds for that recipient what it held before the
\* call: no challenge if there was none, and otherwise the challenge that was
\* there, with its code and its attempts.
C33_FailedRequestLeavesStore ==
    (otpLast.op = "request" /\ otpLast.result # "success") =>
        LET e == MapGet(otpStore, otpLast.recipient)
        IN  /\ otpLast.found <=> (e # NoEntry)
            /\ otpLast.found =>
                /\ e.attempts = otpLast.attempts
                /\ e.maxAttempts = otpLast.maxAttempts
                /\ (e.codeHash = HashCode(otpLast.code)) <=> otpLast.codeOk

-----------------------------------------------------------------------------
(* StorageService: a retrieval while the units of its submission are removed *)

\* C34: with a sweep or deletion of the same submission running between the
\* steps of retrieveSubmission, every unit a retrieval has read successfully
\* held the content that was stored, so a retrieval that returns was built
\* from the original form data and the original artifact; any other
\* retrieval fails.
C34_RetrieveNeverReadsOverwritten ==
    /\ [][(RetrieveReadForm /\ rt'.pc = "pdf") => files[rt.id].form = "data"]_vars
    /\ [][(RetrieveReadPdf /\ rt'.inner = "ok") => files[rt.id].pdf = "data"]_vars
    /\ [](rt.pc = "done" => (rt.inner = "ok" \/ rt.thrown = "Failed to retrieve submission"))

\* C34 witness: a retrieval passed its checks, the sweep then overwrote a
\* unit of the same submission, and the retrieval failed on reading it.
C34_Witness ==
    /\ rt.pc = "done" /\ rt.inner = "read failed"
    /\ rt.id \in SubIds
    /\ sw.pc # "idle" /\ sw.cur = rt.id

-----------------------------------------------------------------------------
(* POST /submit-evidence with the OTP verification the client hands in *)

\* evidenceInput.otpVerification as parsed from req.body.evidence: absent, or
\* an object naming a recipient
OtpEvidence == Recipients \cup {""}

\* POST /submit-evidence: evidenceInput = JSON.parse(req.body.evidence), a
\* warning if it has no otpVerification, then assembleAndStore up to the
\* return of storeSubmission; bundle.otpVerification =
\* evidenceInput?.otpVerification || null
SubmitEvidence(p, buffer, otp) ==
    /\ asm[p].pc = "idle"
    /\ nextId \in SubIds
    /\ files' = [files EXCEPT ![nextId] =
            [form |-> "data", pdf |-> "data", meta |-> "data",
             expiresAt |-> calculateExpiryDate(now)]]
    /\ expiryOf' = [expiryOf EXCEPT ![nextId] = calculateExpiryDate(now)]
    /\ nextId' = nextId + 1
    /\ metaHash' = [metaHash EXCEPT ![nextId] = calculateHash(buffer)]
    /\ asm' = [asm EXCEPT ![p] = [IdleAssemble EXCEPT !.pc = "stored", !.pdf = buffer,
                                                      !.submissionId = nextId,
                                                      !.otpVerification = otp]]
    /\ UNCHANGED <<st, rt, sw, sweptExpired, evidence, chainVars, exceptBundleVars>>

\* POST /api/otp/verify: verifyOTP(recipient, code); a success is the only
\* event that verifies a recipient
VerifyOTPRoute(r, code) ==
    /\ otpStore' = VerifyStore(otpStore, r, code)
    /\ otpLast' = OtpCallRecord("verify", r, code,
                                VerifyReason(MapGet(otpStore, r), code), MapGet(otpStore, r))
    /\ otpVerified' = IF VerifyReason(MapGet(otpStore, r), code) = "success"
                      THEN otpVerified \cup {r} ELSE otpVerified
    /\ UNCHANGED <<chainVars, storageVars, tokenVars, callVars, bundleVars, stampVars,
                   cryptVars, ioVars, grantVars, bf, now>>

InitEvidence == InitChainIdle /\ InitStorageIdle /\ InitTokenIdle /\ InitPeersIdle /\ now = 0

\* the request that submits evidence; submissions are made one at a time
Submitter == CHOOSE p \in Appenders : \A q \in Appenders : p <= q

\* req.file.buffer
SubmittedPdf == CHOOSE buffer \in Pdfs : TRUE

NextEvidence ==
    \/ Initialize
    \/ \E r \in Recipients, code \in Codes : RequestOTP(r, code, "none", TRUE)
    \/ \E r \in Recipients, code \in Codes : VerifyOTPRoute(r, code)
    \/ \E otp \in OtpEvidence : SubmitEvidence(Submitter, SubmittedPdf, otp)
    \/ GetTimestampCall(Submitter)
    \/ AssembleAppendCall(Submitter)
    \/ AppendRead(Submitter)
    \/ AssembleAppendWrite(Submitter)
    \/ AssembleWriteEvidence(Submitter)

\* OTP requests and verifications, and evidence submissions
SpecEvidence == InitEvidence /\ [][NextEvidence]_vars

\* C35: every persisted bundle that records an OTP verification records it
\* for a recipient for which a verifyOTP call has succeeded before.
C35_OtpEvidenceWasVerified ==
    \A s \in SubIds :
        evidence[s].otpVerification # "" => evidence[s].otpVerification \in otpVerified

-----------------------------------------------------------------------------
(* encryptFormData / decryptFormData *)

\* const sensitiveFields = ['patientName', 'email', 'guardianName']
sensitiveFields == {"patientName", "email", "guardianName"}

\* the keys of a form-data object: the sensitive fields and one other field
FormKeys == sensitiveFields \cup {"role"}

\* a field value that is a string
Str(s) == [type |-> "string", str |-> s, encrypted |-> FALSE]

\* a field value that is an object, with or without a truthy property
\* 'encrypted'
Obj(enc) == [type |-> "object", str |-> "", encrypted |-> enc]

\* `value` as a condition: false for the empty string, true for an object
Truthy(v) == v.type = "object" \/ v.str # ""

\* the values a sensitive field and another field are given
SensitiveValues == {Str(s) : s \in Plaintexts}
OtherValues == {Str("patient"), Obj(FALSE), Obj(TRUE)}

FormDatas == {f \in [FormKeys -> SensitiveValues \cup OtherValues] :
                \A k \in FormKeys : f[k] \in (IF k \in sensitiveFields
                                              THEN SensitiveValues ELSE OtherValues)}

\* an entry of encrypted.data: the blob encrypt returned, or the value itself
Sealed(blob) == [kind |-> "blob", blob |-> blob, value |-> Str("")]
Kept(v) == [kind |-> "value", blob |-> NoBlob, value |-> v]

\* encryptFormData(formData): encrypted.data[key] = this.encrypt(value, key)
\* if sensitiveFields.includes(key) && value, and value otherwise
encryptFormData(formData, salts, ivs) ==
    [metadata |-> [encrypted |-> TRUE],
     data |-> [key \in FormKeys |->
                 IF key \in sensitiveFields /\ Truthy(formData[key])
                 THEN Sealed(EncryptBlob(formData[key].str, key, salts[key], ivs[key]))
                 ELSE Kept(formData[key])]]

\* value && typeof value === 'object' && value.encrypted: true of a blob, whose
\* property 'encrypted' is the ciphertext, and of any other object that has a
\* truthy property 'encrypted'
LooksEncrypted(entry) ==
    \/ entry.kind = "blob"
    \/ entry.value.type = "object" /\ entry.value.encrypted

\* this.decrypt(value) for one entry: an object that is no blob has no salt,
\* iv and tag, so decrypt throws
DecryptEntry(entry) ==
    IF entry.kind = "blob" THEN DecryptBlob(entry.blob) ELSE Failed

NoFormData == [key \in FormKeys |-> Str("")]

NoFormResult == [status |-> "none", data |-> NoFormData]

\* decryptFormData(encryptedFormData): every entry that looks encrypted is
\* decrypted, every other entry copied; one failing decrypt throws
\* 'Failed to decrypt form data'
decryptFormData(e) ==
    IF ~e.metadata.encrypted
    THEN [status |-> "ok", data |-> [key \in FormKeys |-> e.data[key].value]]
    ELSE IF \E key \in FormKeys :
                LooksEncrypted(e.data[key]) /\ DecryptEntry(e.data[key]).status # "ok"
         THEN [status |-> "Failed to decrypt form data", data |-> NoFormData]
         ELSE [status |-> "ok",
               data |-> [key \in FormKeys |->
                           IF LooksEncrypted(e.data[key])
                           THEN Str(DecryptEntry(e.data[key]).plaintext)
                           ELSE e.data[key].value]]

\* encryptFormData(formData) is called and its result kept
EncryptFormData(formData, salts, ivs) ==
    /\ crypt.pc = "idle"
    /\ crypt' = [pc |-> "form sealed", formData |-> formData,
                 stored |-> encryptFormData(formData, salts, ivs),
                 result |-> NoFormResult]
    /\ UNCHANGED exceptCryptVars

\* decryptFormData is called with what encryptFormData returned
DecryptFormData ==
    /\ crypt.pc = "form sealed"
    /\ crypt' = [crypt EXCEPT !.pc = "form decrypted",
                              !.result = decryptFormData(crypt.stored)]
    /\ UNCHANGED exceptCryptVars

NextFormData ==
    \/ \E formData \in FormDatas, salts \in [sensitiveFields -> Salts],
          ivs \in [sensitiveFields -> Ivs] :
            EncryptFormData(formData, salts, ivs)
    \/ DecryptFormData

SpecFormData == InitCrypt /\ [][NextFormData]_vars

\* the sensitive fields of the form data are non-empty strings
SensitiveNonEmpty(formData) ==
    \A key \in sensitiveFields : formData[key].type = "string" /\ formData[key].str # ""

\* C36: for every form data whose sensitive fields are non-empty strings,
\* decryptFormData(encryptFormData(f)) equals f field by field; each sensitive
\* field is encrypted on its own under its field name as context, and every
\* other field is stored and returned unchanged
C36_FormDataRoundTrip ==
    /\ (crypt.pc \in {"form sealed", "form decrypted"} /\ SensitiveNonEmpty(crypt.formData))
            => \A key \in FormKeys :
                  IF key \in sensitiveFields
                  THEN /\ crypt.stored.data[key].kind = "blob"
                       /\ crypt.stored.data[key].blob.context = key
                  ELSE crypt.stored.data[key] = Kept(crypt.formData[key])
    /\ (crypt.pc = "form decrypted" /\ SensitiveNonEmpty(crypt.formData))
            => /\ crypt.result.status = "ok"
               /\ \A key \in FormKeys : crypt.result.data[key] = crypt.formData[key]

\* C36, the part the code keeps: each sensitive field is sealed on its own
\* under its field name, every other field is stored as it is
C36_StoredFieldByField ==
    (crypt.pc \in {"form sealed", "form decrypted"} /\ SensitiveNonEmpty(crypt.formData))
        => \A key \in FormKeys :
              IF key \in sensitiveFields
              THEN /\ crypt.stored.data[key].kind = "blob"
                   /\ crypt.stored.data[key].blob.context = key
              ELSE crypt.stored.data[key] = Kept(crypt.formData[key])

\* C36: a form whose sensitive fields are well-formed strings and whose other
\* field is an object with a property 'encrypted' has been sealed and is
\* refused by decryptFormData
C36_ObjectFieldRefused ==
    /\ crypt.pc = "form decrypted"
    /\ SensitiveNonEmpty(crypt.formData)
    /\ \A key \in sensitiveFields : crypt.formData[key].str # LoneSurrogate
    /\ crypt.result.status = "Failed to decrypt form data"

-----------------------------------------------------------------------------
(* SecurityMiddleware.getBruteForceProtection *)

\* rateLimitConfig.bruteForce.maxConsecutiveFails, scaled down
maxConsecutiveFails == 2

\* rateLimitConfig.bruteForce.failureWindow, in ticks
failureWindow == 2

\* userAttempts.filter(time => now - time < windowMs)
RecentAttempts(userAttempts, at) ==
    LET InWindow(time) == at - time < failureWindow
    IN  SelectSeq(userAttempts, InWindow)

\* the failures recorded for one key are followed up to this many
MaxFailures == maxConsecutiveFails + 1

\* the middleware runs for a request of client key: the list under the key is
\* filtered into a new array; 429 if it holds maxConsecutiveFails entries,
\* otherwise req.bruteForceTracking keeps the array and `now`, and next()
BruteForceEnter(r, key) ==
    /\ bf.req[r].pc = "idle"
    /\ LET recentAttempts == RecentAttempts(bf.attempts[key], now)
           due == Len(RecentAttempts(bf.recorded[key], now))
       IN  bf' = [bf EXCEPT !.req[r] =
                    IF Len(recentAttempts) >= maxConsecutiveFails
                    THEN [pc |-> "blocked", key |-> key, now |-> now,
                          recentAttempts |-> <<>>, due |-> due]
                    ELSE [pc |-> "running", key |-> key, now |-> now,
                          recentAttempts |-> recentAttempts, due |-> due]]
    /\ UNCHANGED <<chainVars, storageVars, tokenVars, callVars, otpVars, bundleVars,
                   stampVars, cryptVars, ioVars, grantVars, otpVerified, now>>

\* req.bruteForceTracking.recordFailure(): recentAttempts.push(now);
\* attempts.set(key, recentAttempts), with the array and the `now` of this
\* request's entry
RecordFailure(r) ==
    /\ bf.req[r].pc = "running"
    /\ Len(bf.recorded[bf.req[r].key]) < MaxFailures
    /\ LET q == bf.req[r]
       IN  bf' = [bf EXCEPT !.attempts[q.key] = Append(q.recentAttempts, q.now),
                            !.recorded[q.key] = Append(@, q.now),
                            !.req[r].pc = "failed",
                            !.req[r].recentAttempts = Append(q.recentAttempts, q.now)]
    /\ UNCHANGED <<chainVars, storageVars, tokenVars, callVars, otpVars, bundleVars,
                   stampVars, cryptVars, ioVars, grantVars, otpVerified, now>>

\* req.bruteForceTracking.recordSuccess(): attempts.delete(key)
RecordSuccess(r) ==
    /\ bf.req[r].pc = "running"
    /\ LET q == bf.req[r]
       IN  bf' = [bf EXCEPT !.attempts[q.key] = <<>>,
                            !.recorded[q.key] = <<>>,
                            !.succeeded[q.key] = TRUE,
                            !.req[r].pc = "succeeded"]
    /\ UNCHANGED <<chainVars, storageVars, tokenVars, callVars, otpVars, bundleVars,
                   stampVars, cryptVars, ioVars, grantVars, otpVerified, now>>

\* the response is sent: after 429, after a recorded failure or success, or
\* by a route that records neither
BruteForceRespond(r) ==
    /\ bf.req[r].pc # "idle"
    /\ bf' = [bf EXCEPT !.req[r] = NoBfRequest]
    /\ UNCHANGED <<chainVars, storageVars, tokenVars, callVars, otpVars, bundleVars,
                   stampVars, cryptVars, ioVars, grantVars, otpVerified, now>>

BruteForceTick ==
    /\ now < MaxTime
    /\ now' = now + 1
    /\ UNCHANGED <<chainVars, storageVars, tokenVars, peerVars>>

InitBruteForce ==
    InitChainIdle /\ InitStorageIdle /\ InitTokenIdle /\ InitPeersIdle /\ now = 0

NextBruteForce ==
    \/ \E r \in Requests, key \in ClientKeys : BruteForceEnter(r, key)
    \/ \E r \in Requests : RecordFailure(r)
    \/ \E r \in Requests : RecordSuccess(r)
    \/ \E r \in Requests : BruteForceRespond(r)
    \/ BruteForceTick

SpecBruteForce == InitBruteForce /\ [][NextBruteForce]_vars

\* C37: for a client key with no success recorded, the stored attempt list
\* holds as many entries within the failure window as failures were recorded
\* within it, whatever the interleaving of the client's requests; and a
\* request that enters when maxConsecutiveFails failures are recorded within
\* the window is answered 429
C37_EveryFailureCounted ==
    /\ \A key \in ClientKeys :
          ~bf.succeeded[key] =>
              Len(RecentAttempts(bf.attempts[key], now))
                  = Len(RecentAttempts(bf.recorded[key], now))
    /\ \A r \in Requests :
          (bf.req[r].pc = "running" /\ ~bf.succeeded[bf.req[r].key])
              => bf.req[r].due < maxConsecutiveFails

\* C37: a request is let through although maxConsecutiveFails failures of
\* its client, and no success, were recorded within the window
C37_PassedWhenDue ==
    \E r \in Requests :
        /\ bf.req[r].pc = "running"
        /\ ~bf.succeeded[bf.req[r].key]
        /\ bf.req[r].due >= maxConsecutiveFails

=============================================================================
